---------------------------- MODULE Spec2Model ----------------------------
(***************************************************************************)
(* Timeline visualizer: the date parser (DateParser), the data store       *)
(* (DataManager) and the renderer's viewport and collision layout          *)
(* (Renderer), modelled as state machines.                                 *)
(*                                                                         *)
(* Texts are sequences of lexemes: a keyword, a digit, a blank or a dash   *)
(* is one lexeme, and a text is the concatenation of its lexemes, so the   *)
(* regular expressions of the parser are matched lexeme by lexeme.         *)
(* Dates are records [y, m, d]; an instant is a day number.                *)
(* Pixels and zoom are fixed-point numbers with two decimals (PX and ZS).  *)
(***************************************************************************)
EXTENDS Integers, Sequences, FiniteSets, TLC

(***************************************************************************)
(* Small helpers                                                           *)
(***************************************************************************)
Max2(a, b) == IF a >= b THEN a ELSE b

Min2(a, b) == IF a <= b THEN a ELSE b

SetMin(S) == CHOOSE x \in S : \A y \in S : x <= y

SetMax(S) == CHOOSE x \in S : \A y \in S : x >= y

\* Rounding division (nearest, ties up) of an integer by a positive integer.
RDiv(a, b) == (2 * a + b) \div (2 * b)

(***************************************************************************)
(* Calendar                                                                *)
(***************************************************************************)
MkDate(y, m, d) == [y |-> y, m |-> m, d |-> d]

\* The absent date (JavaScript null).
NullDate == MkDate(0, 0, 0)

IsLeap(y) == (y % 4 = 0 /\ y % 100 # 0) \/ y % 400 = 0

DaysBeforeMonth(y, m) ==
    LET cum == <<0, 31, 59, 90, 120, 151, 181, 212, 243, 273, 304, 334>>
    IN cum[m] + (IF m > 2 /\ IsLeap(y) THEN 1 ELSE 0)

\* Day number of a calendar date: days since 2000-01-01 (new Date(iso) / 86400000, shifted).
DayNumber(dt) ==
    LET y1 == dt.y - 1
        leaps == (y1 \div 4) - (y1 \div 100) + (y1 \div 400)
    IN (365 * y1 + leaps + DaysBeforeMonth(dt.y, dt.m) + dt.d) - 730120

\* Ordering of calendar dates.
DateLE(a, b) ==
    \/ a.y < b.y
    \/ a.y = b.y /\ a.m < b.m
    \/ a.y = b.y /\ a.m = b.m /\ a.d <= b.d

(***************************************************************************)
(* Lexemes                                                                 *)
(***************************************************************************)
DigitSeq == <<"0", "1", "2", "3", "4", "5", "6", "7", "8", "9">>

Digits == {DigitSeq[k] : k \in 1..10}

DigitVal(c) == (CHOOSE k \in 1..10 : DigitSeq[k] = c) - 1

\* hyphen, en dash, em dash
Dashes == {"-", "endash", "emdash"}

\* String.prototype.toLowerCase on one lexeme.
LowerLex(c) ==
    CASE c = "Q" -> "q"
      [] c = "FY" -> "fy"
      [] c = "ONGOING" -> "ongoing"
      [] c = "Ongoing" -> "ongoing"
      [] c = "TBD" -> "tbd"
      [] c = "Continuous" -> "continuous"
      [] c = "Indefinite" -> "indefinite"
      [] c = "April" -> "april"
      [] c = "June" -> "june"
      [] c = "Quarter" -> "quarter"
      [] OTHER -> c

ToLowerCase(s) == [i \in 1..Len(s) |-> LowerLex(s[i])]

RECURSIVE TrimLeft(_)
TrimLeft(s) == IF s # <<>> /\ Head(s) = " " THEN TrimLeft(Tail(s)) ELSE s

RECURSIVE TrimRight(_)
TrimRight(s) ==
    IF s # <<>> /\ s[Len(s)] = " " THEN TrimRight(SubSeq(s, 1, Len(s) - 1)) ELSE s

\* A trim that is forgotten.
TrimMutant(s) == s

Trim(s) == TrimRight(TrimLeft(s))

\* The lexeme at position i, or the end marker outside the text.
At(s, i) == IF i \in 1..Len(s) THEN s[i] ELSE "$"

(***************************************************************************)
(* Regular-expression pieces.  Each takes the position where it must match *)
(* and returns the position after its match, or 0 when it does not match.  *)
(***************************************************************************)
RECURSIVE SkipWs(_, _)
SkipWs(s, i) == IF At(s, i) = " " THEN SkipWs(s, i + 1) ELSE i

\* \s*
Ws0(s, i) == IF i = 0 THEN 0 ELSE SkipWs(s, i)

\* \s+
Ws1(s, i) == IF i # 0 /\ At(s, i) = " " THEN SkipWs(s, i) ELSE 0

\* one lexeme out of a set
Tok(s, i, set) == IF i # 0 /\ At(s, i) \in set THEN i + 1 ELSE 0

\* \d{n}
Dn(s, i, n) == IF i # 0 /\ \A k \in 0..(n - 1) : At(s, i + k) \in Digits THEN i + n ELSE 0

\* parseInt of the n digits at position i
RECURSIVE NumVal(_, _, _)
NumVal(s, i, n) == IF n = 0 THEN 0 ELSE NumVal(s, i, n - 1) * 10 + DigitVal(s[i + n - 1])

\* String.prototype.match without the g flag: the leftmost position that matches.
FirstPos(P(_, _), s) ==
    LET M == {i \in 1..Len(s) : P(s, i) # 0}
    IN IF M = {} THEN 0 ELSE SetMin(M)

(***************************************************************************)
(* DateParser                                                              *)
(***************************************************************************)
\* Month names mapping (0-based month index), in the order of the object literal.
MonthOrder ==
    <<"january", "jan", "february", "feb", "march", "mar", "april", "apr", "may",
      "june", "jun", "july", "jul", "august", "aug", "september", "sep", "sept",
      "october", "oct", "november", "nov", "december", "dec">>

MonthIndexOrder ==
    <<0, 0, 1, 1, 2, 2, 3, 3, 4, 5, 5, 6, 6, 7, 7, 8, 8, 8, 9, 9, 10, 10, 11, 11>>

MonthNames == {MonthOrder[k] : k \in 1..Len(MonthOrder)}

MONTHS(name) == MonthIndexOrder[CHOOSE k \in 1..Len(MonthOrder) : MonthOrder[k] = name]

\* Quarter to month mapping: the stored numbers are 0-based month indexes.
QUARTERS(q) == CASE q = 1 -> 1 [] q = 2 -> 4 [] q = 3 -> 7 [] q = 4 -> 10

\* Season to month mapping (0-based month index), in the order of the object literal.
SeasonOrder == <<"spring", "summer", "fall", "autumn", "winter">>

SeasonIndexOrder == <<3, 6, 9, 9, 0>>

\* The value parse returns for null.
NullResult ==
    [isNull |-> TRUE, startDate |-> NullDate, endDate |-> NullDate, isOngoing |-> FALSE,
     threw |-> FALSE]

\* parse left by an exception instead of a return.
ThrownResult == [NullResult EXCEPT !.threw = TRUE]

MkResult(sd, ed, og) ==
    [isNull |-> FALSE, startDate |-> sd, endDate |-> ed, isOngoing |-> og, threw |-> FALSE]

PointResult(sd) == MkResult(sd, NullDate, FALSE)

\* month \s+ \d{4} \s* dash \s* month \s+ \d{4}
MonthRangeYearsAt(s, i) ==
    Dn(s, Ws1(s, Tok(s, Ws0(s, Tok(s, Ws0(s, Dn(s, Ws1(s, Tok(s, i, MonthNames)), 4)),
                                   Dashes)), MonthNames)), 4)

\* month \s* dash \s* month \s+ \d{4}
MonthRangeAt(s, i) ==
    Dn(s, Ws1(s, Tok(s, Ws0(s, Tok(s, Ws0(s, Tok(s, i, MonthNames)), Dashes)),
                     MonthNames)), 4)

\* q \d \s* dash \s* q \d \s+ \d{4}
QuarterRangeAt(s, i) ==
    Dn(s, Ws1(s, Dn(s, Tok(s, Ws0(s, Tok(s, Ws0(s, Dn(s, Tok(s, i, {"q"}), 1)), Dashes)),
                           {"q"}), 1)), 4)

\* \d{4} \s* dash \s* \d{4}
YearRangeAt(s, i) == Dn(s, Ws0(s, Tok(s, Ws0(s, Dn(s, i, 4)), Dashes)), 4)

QuarterRangeResult(s) ==
    LET i == FirstPos(QuarterRangeAt, s)
        j == Ws0(s, Tok(s, Ws0(s, i + 2), Dashes))
        startQ == NumVal(s, i + 1, 1)
        endQ == NumVal(s, j + 1, 1)
        year == NumVal(s, Ws1(s, j + 2), 4)
    IN IF i # 0 /\ startQ >= 1 /\ startQ <= 4 /\ endQ >= 1 /\ endQ <= 4
       THEN MkResult(MkDate(year, QUARTERS(startQ), 1),
                     MkDate(year, QUARTERS(endQ) + 2, 28), FALSE)
       ELSE NullResult

\* A year range that ends on the 28th, as the month ranges do.
YearRangeResultMutant(s) ==
    LET i == FirstPos(YearRangeAt, s)
        j == Ws0(s, Tok(s, Ws0(s, i + 4), Dashes))
    IN IF i # 0
       THEN MkResult(MkDate(NumVal(s, i, 4), 1, 1), MkDate(NumVal(s, j, 4), 12, 28), FALSE)
       ELSE NullResult

YearRangeResult(s) ==
    LET i == FirstPos(YearRangeAt, s)
        j == Ws0(s, Tok(s, Ws0(s, i + 4), Dashes))
    IN IF i # 0
       THEN MkResult(MkDate(NumVal(s, i, 4), 1, 1), MkDate(NumVal(s, j, 4), 12, 31), FALSE)
       ELSE NullResult

parseRange(s) ==
    LET i1 == FirstPos(MonthRangeYearsAt, s)
        i2 == FirstPos(MonthRangeAt, s)
    IN IF i1 # 0
       THEN LET y1 == Ws1(s, i1 + 1)
                m2 == Ws0(s, Tok(s, Ws0(s, y1 + 4), Dashes))
                y2 == Ws1(s, m2 + 1)
            IN MkResult(MkDate(NumVal(s, y1, 4), MONTHS(s[i1]) + 1, 1),
                        MkDate(NumVal(s, y2, 4), MONTHS(s[m2]) + 1, 28), FALSE)
       ELSE IF i2 # 0
       THEN LET m2 == Ws0(s, Tok(s, Ws0(s, i2 + 1), Dashes))
                y == Ws1(s, m2 + 1)
            IN MkResult(MkDate(NumVal(s, y, 4), MONTHS(s[i2]) + 1, 1),
                        MkDate(NumVal(s, y, 4), MONTHS(s[m2]) + 1, 28), FALSE)
       ELSE IF ~QuarterRangeResult(s).isNull THEN QuarterRangeResult(s)
       ELSE YearRangeResult(s)

\* (?:fy|fiscal\s+year)
FyHeadAt(s, i) ==
    IF Tok(s, i, {"fy"}) # 0 THEN i + 1 ELSE Tok(s, Ws1(s, Tok(s, i, {"fiscal"})), {"year"})

\* (?:fy|fiscal\s+year) \s* \d{2,4}
FiscalYearAt(s, i) == Dn(s, Ws0(s, FyHeadAt(s, i)), 2)

\* A fiscal year whose two-digit form is not moved into this century.
parseFiscalYearMutant(s) ==
    LET i == FirstPos(FiscalYearAt, s)
        d == Ws0(s, FyHeadAt(s, i))
        n == IF Dn(s, d, 4) # 0 THEN 4 ELSE IF Dn(s, d, 3) # 0 THEN 3 ELSE 2
    IN IF i = 0 THEN NullDate ELSE MkDate(NumVal(s, d, n), 9, 30)

parseFiscalYear(s) ==
    LET i == FirstPos(FiscalYearAt, s)
        d == Ws0(s, FyHeadAt(s, i))
        n == IF Dn(s, d, 4) # 0 THEN 4 ELSE IF Dn(s, d, 3) # 0 THEN 3 ELSE 2
        year == NumVal(s, d, n)
    IN IF i = 0 THEN NullDate
       ELSE MkDate(IF year < 100 THEN year + 2000 ELSE year, 9, 30)

\* (?:of\s+)? \d{4}
OptOfYearAt(s, i) ==
    IF Dn(s, Ws1(s, Tok(s, i, {"of"})), 4) # 0
    THEN Dn(s, Ws1(s, Tok(s, i, {"of"})), 4)
    ELSE Dn(s, i, 4)

\* (?:q|quarter) \s* \d \s* (?:of\s+)? \d{4}
QuarterAt(s, i) == OptOfYearAt(s, Ws0(s, Dn(s, Ws0(s, Tok(s, i, {"q", "quarter"})), 1)))

parseQuarter(s) ==
    LET i == FirstPos(QuarterAt, s)
        q == Ws0(s, i + 1)
        quarter == NumVal(s, q, 1)
        year == NumVal(s, OptOfYearAt(s, Ws0(s, q + 1)) - 4, 4)
    IN IF i # 0 /\ quarter >= 1 /\ quarter <= 4
       THEN MkDate(year, QUARTERS(quarter), 1)
       ELSE NullDate

\* word \s+ (?:of\s+)? \d{4}
WordOfYearAt(s, i, word) == OptOfYearAt(s, Ws1(s, Tok(s, i, {word})))

\* word \s+ \d{4}
WordYearAt(s, i, word) == Dn(s, Ws1(s, Tok(s, i, {word})), 4)

\* The first key, in iteration order, whose pattern At(s, i, key) matches somewhere.
FirstKey(At3(_, _, _), s, order) ==
    LET K == {k \in 1..Len(order) : \E i \in 1..Len(s) : At3(s, i, order[k]) # 0}
    IN IF K = {} THEN 0 ELSE SetMin(K)

parseSeason(s) ==
    LET k == FirstKey(WordOfYearAt, s, SeasonOrder)
        season == SeasonOrder[k]
        month == SeasonIndexOrder[k]
        i == SetMin({j \in 1..Len(s) : WordOfYearAt(s, j, season) # 0})
        year == NumVal(s, WordOfYearAt(s, i, season) - 4, 4)
        adjustedYear == IF season = "winter" /\ month = 0 THEN year + 1 ELSE year
    IN IF k = 0 THEN NullDate ELSE MkDate(adjustedYear, month + 1, 1)

\* (?:by\s+)? month \s+ \d{4}
ByMonthYearAt(s, i, monthName) ==
    IF WordYearAt(s, Ws1(s, Tok(s, i, {"by"})), monthName) # 0
    THEN WordYearAt(s, Ws1(s, Tok(s, i, {"by"})), monthName)
    ELSE WordYearAt(s, i, monthName)

parseMonth(s) ==
    LET k == FirstKey(ByMonthYearAt, s, MonthOrder)
        monthName == MonthOrder[k]
        i == SetMin({j \in 1..Len(s) : ByMonthYearAt(s, j, monthName) # 0})
        year == NumVal(s, ByMonthYearAt(s, i, monthName) - 4, 4)
    IN IF k = 0 THEN NullDate ELSE MkDate(year, MonthIndexOrder[k] + 1, 1)

\* The patterns of parseVaguePeriod, in order, with the month number each one writes.
VagueOrder == <<"early", "mid", "late">>

VagueMonth == <<2, 7, 10>>

\* word [- ] \d{4}
VagueAt(s, i, word) == Dn(s, Tok(s, Tok(s, i, {word}), {"-", " "}), 4)

parseVaguePeriod(s) ==
    LET k == FirstKey(VagueAt, s, VagueOrder)
        i == SetMin({j \in 1..Len(s) : VagueAt(s, j, VagueOrder[k]) # 0})
    IN IF k = 0 THEN NullDate ELSE MkDate(NumVal(s, i + 2, 4), VagueMonth[k], 1)

\* (?:end\s+of|by\s+the\s+end\s+of) \s+ \d{4}
EndOfYearAt(s, i) ==
    LET short == Dn(s, Ws1(s, Tok(s, Ws1(s, Tok(s, i, {"end"})), {"of"})), 4)
        long == Dn(s, Ws1(s, Tok(s, Ws1(s, Tok(s, Ws1(s, Tok(s, Ws1(s, Tok(s, i, {"by"})),
                                 {"the"})), {"end"})), {"of"})), 4)
    IN IF short # 0 THEN short ELSE long

parseEndOfYear(s) ==
    LET i == FirstPos(EndOfYearAt, s)
    IN IF i = 0 THEN NullDate ELSE MkDate(NumVal(s, EndOfYearAt(s, i) - 4, 4), 12, 31)

\* (?:start(?:ing)?\s+in|beginning\s+(?:in|of)) \s+ \d{4}
StartingInAt(s, i) ==
    LET a == Dn(s, Ws1(s, Tok(s, Ws1(s, Tok(s, i, {"start", "starting"})), {"in"})), 4)
        b == Dn(s, Ws1(s, Tok(s, Ws1(s, Tok(s, i, {"beginning"})), {"in", "of"})), 4)
    IN IF a # 0 THEN a ELSE b

parseStartingIn(s) ==
    LET i == FirstPos(StartingInAt, s)
    IN IF i = 0 THEN NullDate ELSE MkDate(NumVal(s, StartingInAt(s, i) - 4, 4), 1, 1)

\* by \s+ \d{4}
ByYearAt(s, i) == Dn(s, Ws1(s, Tok(s, i, {"by"})), 4)

\* (?:^|\s) \d{4} (?:\s|$); the position returned by FirstPos is that of the match's start.
StandaloneYearAt(s, i) ==
    LET d == IF At(s, i) = " " THEN i + 1 ELSE IF i = 1 THEN 1 ELSE 0
    IN IF Dn(s, d, 4) # 0 /\ At(s, d + 4) \in {" ", "$"} THEN d + 4 ELSE 0

\* A bare year that must lie below 2100.
parseYearMutant(s) ==
    LET b == FirstPos(ByYearAt, s)
        byYear == NumVal(s, ByYearAt(s, b) - 4, 4)
        i == FirstPos(StandaloneYearAt, s)
        year == NumVal(s, StandaloneYearAt(s, i) - 4, 4)
    IN IF b # 0 /\ byYear >= 2000 /\ byYear <= 2100 THEN MkDate(byYear, 1, 1)
       ELSE IF i # 0 /\ year >= 2000 /\ year < 2100 THEN MkDate(year, 7, 1)
       ELSE NullDate

parseYear(s) ==
    LET b == FirstPos(ByYearAt, s)
        byYear == NumVal(s, ByYearAt(s, b) - 4, 4)
        i == FirstPos(StandaloneYearAt, s)
        year == NumVal(s, StandaloneYearAt(s, i) - 4, 4)
    IN IF b # 0 /\ byYear >= 2000 /\ byYear <= 2100 THEN MkDate(byYear, 1, 1)
       ELSE IF i # 0 /\ year >= 2000 /\ year <= 2100 THEN MkDate(year, 7, 1)
       ELSE NullDate


\* The day before a calendar date (local-time getters west of Greenwich).
PrevDay(dt) ==
    IF dt.d > 1 THEN MkDate(dt.y, dt.m, dt.d - 1)
    ELSE IF dt.m > 1
         THEN MkDate(dt.y, dt.m - 1,
                     DaysBeforeMonth(dt.y, dt.m) - DaysBeforeMonth(dt.y, dt.m - 1))
         ELSE MkDate(dt.y - 1, 12, 31)

\* Days in month m of year y.
DaysInMonth(y, m) ==
    IF m = 12 THEN 31 ELSE DaysBeforeMonth(y, m + 1) - DaysBeforeMonth(y, m)

\* The date-only forms of the ECMAScript date-time string format: YYYY, YYYY-MM and
\* YYYY-MM-DD.  The date they denote, or NullDate when the text is none of them.
IsoDate(raw) ==
    LET y == NumVal(raw, 1, 4)
        m == NumVal(raw, 6, 2)
        d == NumVal(raw, 9, 2)
        hasMonth == Dn(raw, 1, 4) # 0 /\ At(raw, 5) = "-" /\ Dn(raw, 6, 2) # 0 /\ m \in 1..12
    IN IF Len(raw) = 4 /\ Dn(raw, 1, 4) # 0 THEN MkDate(y, 1, 1)
       ELSE IF Len(raw) = 7 /\ hasMonth THEN MkDate(y, m, 1)
       ELSE IF /\ Len(raw) = 10 /\ hasMonth /\ raw[8] = "-" /\ Dn(raw, 9, 2) # 0
               /\ d >= 1 /\ d <= DaysInMonth(y, m)
            THEN MkDate(y, m, d)
       ELSE NullDate

\* formatDate(new Date(text)) on the raw text, NullDate for an Invalid Date.  An ISO date
\* is UTC midnight, read back with local-time getters (isWest: the zone is behind UTC).
\* What any other text yields is implementation-defined: legacyDate is the engine's answer
\* for a text that holds a digit.
GenericDate(raw, isWest, legacyDate) ==
    IF IsoDate(raw) # NullDate
    THEN IF isWest THEN PrevDay(IsoDate(raw)) ELSE IsoDate(raw)
    ELSE IF \E i \in 1..Len(raw) : raw[i] \in Digits THEN legacyDate
    ELSE NullDate

OngoingLiterals == {<<"ongoing">>, <<"continuous">>, <<"tbd">>, <<"indefinite">>}

\* result = parseX(normalized); if (result) return ...: the first date that is not null.
FirstDate(first, rest) == IF first # NullDate THEN first ELSE rest

\* The single-date strategies of parse, first match wins.
parseSingle(normalized) ==
    FirstDate(parseFiscalYear(normalized),
    FirstDate(parseQuarter(normalized),
    FirstDate(parseSeason(normalized),
    FirstDate(parseMonth(normalized),
    FirstDate(parseVaguePeriod(normalized),
    FirstDate(parseEndOfYear(normalized),
    FirstDate(parseStartingIn(normalized), parseYear(normalized))))))))

\* What parse returns for a text that is not an ongoing literal: the range when there is
\* one, else the point of the first date found, else null.
RangeOrPoint(rangeResult, date) ==
    IF ~rangeResult.isNull THEN rangeResult
    ELSE IF date # NullDate THEN PointResult(date)
    ELSE NullResult

\* A deadlineText that is not a string: the number 2026 of a JSON file.
NumberValue == <<"#2026">>

IsString(raw) == raw # NumberValue

\* parse with the single-date strategies tried before the ranges.
parseWithMutant(raw, now, isWest, legacyDate) ==
    LET normalized == Trim(ToLowerCase(raw))
    IN IF raw = <<>> THEN NullResult
       ELSE IF ~IsString(raw) THEN ThrownResult
       ELSE IF normalized \in OngoingLiterals THEN MkResult(now, NullDate, TRUE)
       ELSE IF parseSingle(normalized) # NullDate THEN PointResult(parseSingle(normalized))
       ELSE RangeOrPoint(parseRange(normalized), GenericDate(raw, isWest, legacyDate))

\* DateParser.parse(text); now is formatDate(new Date()).  A truthy value that is not a
\* string has no toLowerCase: the call on it throws a TypeError outside the try block.
parseWith(raw, now, isWest, legacyDate) ==
    LET normalized == Trim(ToLowerCase(raw))
    IN IF raw = <<>> THEN NullResult
       ELSE IF ~IsString(raw) THEN ThrownResult
       ELSE IF normalized \in OngoingLiterals THEN MkResult(now, NullDate, TRUE)
       ELSE RangeOrPoint(parseRange(normalized),
                         FirstDate(parseSingle(normalized),
                                   GenericDate(raw, isWest, legacyDate)))


(***************************************************************************)
(* Inputs: the deadline texts the model types, pastes and imports          *)
(***************************************************************************)
\* Longest text built from arbitrary lexemes.
MaxFreeLen == 3

FreeAlphabet == {" ", "-", "q", "Q", "1", "5", "fy", "by", "ongoing", "xyz"}

\* Every text of at most n lexemes over FreeAlphabet.
RECURSIVE FreeTexts(_)
FreeTexts(n) ==
    IF n = 0 THEN {<<>>}
    ELSE FreeTexts(n - 1) \cup {Append(t, c) : t \in FreeTexts(n - 1), c \in FreeAlphabet}

Sp01 == {<<>>, <<" ">>}

YearTexts == {<<"2", "0", "2", "6">>, <<"2", "0", "2", "7">>}

OddYearTexts == {<<"1", "9", "9", "9">>, <<"2", "1", "0", "1">>, <<"2", "0", "2", "6", "5">>}

MonthSample == {"april", "June", "dec", "mar"}

QuarterDigits == {"0", "1", "2", "3", "4", "5"}

OngoingTexts ==
    {p1 \o <<w>> \o p2 :
        p1 \in Sp01, p2 \in Sp01,
        w \in {"ongoing", "ONGOING", "Ongoing", "continuous", "Continuous", "tbd", "TBD",
               "indefinite", "Indefinite"}}

MonthRangeTexts ==
    {<<m1>> \o a \o <<d>> \o b \o <<m2, " ">> \o y :
        m1 \in MonthSample, m2 \in MonthSample, d \in Dashes, a \in Sp01, b \in Sp01,
        y \in YearTexts}

MonthRangeYearsTexts ==
    {<<m1, " ">> \o y1 \o a \o <<d>> \o a \o <<m2, " ">> \o y2 :
        m1 \in {"dec", "mar"}, m2 \in {"dec", "mar"}, d \in Dashes, a \in Sp01,
        y1 \in YearTexts, y2 \in YearTexts}

QuarterRangeTexts ==
    {<<q, n1>> \o a \o <<d>> \o a \o <<q, n2, " ">> \o y :
        q \in {"q", "Q"}, n1 \in QuarterDigits, n2 \in QuarterDigits, d \in Dashes,
        a \in Sp01, y \in {<<"2", "0", "2", "6">>}}

YearRangeTexts ==
    {y1 \o a \o <<d>> \o a \o y2 :
        y1 \in YearTexts \cup OddYearTexts, y2 \in YearTexts \cup OddYearTexts,
        d \in Dashes, a \in Sp01}

FiscalTexts ==
    {h \o n : h \in {<<"fy">>, <<"FY">>, <<"fy", " ">>, <<"fiscal", " ", "year", " ">>,
                     <<"by", " ", "FY">>},
              n \in {<<"2", "7">>, <<"0", "5">>, <<"1", "2", "3">>, <<"7">>} \cup YearTexts
                    \cup OddYearTexts}

QuarterTexts ==
    {h \o <<n>> \o o \o y :
        h \in {<<"q">>, <<"Q">>, <<"q", " ">>, <<"quarter", " ">>, <<"Quarter", " ">>,
               <<"quarter">>},
        n \in QuarterDigits,
        o \in {<<>>, <<" ">>, <<" ", "of", " ">>},
        y \in YearTexts \cup OddYearTexts}

SeasonTexts ==
    {<<SeasonOrder[k]>> \o o \o y :
        k \in 1..Len(SeasonOrder), o \in {<<" ">>, <<" ", "of", " ">>, <<>>}, y \in YearTexts}

MonthTexts ==
    {b \o <<m, " ">> \o y :
        b \in {<<>>, <<"by", " ">>}, m \in MonthSample \cup {"september", "sept", "may"},
        y \in YearTexts \cup OddYearTexts}

VagueTexts ==
    {<<VagueOrder[k], c>> \o y :
        k \in 1..Len(VagueOrder), c \in {"-", " ", "endash"}, y \in YearTexts}

EndStartTexts ==
    {h \o y :
        h \in {<<"end", " ", "of", " ">>, <<"by", " ", "the", " ", "end", " ", "of", " ">>,
               <<"starting", " ", "in", " ">>, <<"start", " ", "in", " ">>,
               <<"beginning", " ", "of", " ">>, <<"beginning", " ", "in", " ">>,
               <<"by", " ">>, <<>>, <<"xyz", " ">>},
        y \in YearTexts \cup OddYearTexts}

IsoTexts ==
    {y \o <<"-">> \o m \o d :
        y \in YearTexts, m \in {<<"0", "3">>, <<"0", "2">>, <<"1", "3">>},
        d \in {<<>>, <<"-", "0", "1">>, <<"-", "3", "0">>}}

\* The first and the last year the year strategy accepts, bare and after "by".
YearEdgeTexts ==
    {h \o y : h \in {<<>>, <<"by", " ">>},
              y \in {<<"2", "0", "0", "0">>, <<"2", "1", "0", "0">>}}

\* One phrase of each strategy.
PhraseTexts ==
    OngoingTexts \cup MonthRangeTexts \cup MonthRangeYearsTexts \cup QuarterRangeTexts
    \cup YearRangeTexts \cup FiscalTexts \cup QuarterTexts \cup SeasonTexts \cup MonthTexts
    \cup VagueTexts \cup EndStartTexts \cup IsoTexts \cup YearEdgeTexts

\* A phrase inside other words and blanks.
PaddedTexts ==
    {p1 \o t \o p2 :
        p1 \in {<<" ">>, <<"xyz", " ">>}, p2 \in {<<" ">>, <<" ", "xyz">>},
        t \in MonthRangeTexts \cup QuarterTexts \cup FiscalTexts \cup EndStartTexts}

TextSet == FreeTexts(MaxFreeLen) \cup PhraseTexts \cup PaddedTexts

Todays == {MkDate(2026, 11, 1), MkDate(2027, 3, 1)}

\* Answers of the engine's implementation-defined date parser.
LegacyDates == {NullDate, MkDate(2001, 5, 1)}

(***************************************************************************)
(* DataManager: values                                                     *)
(*                                                                         *)
(* A JavaScript value that may be undefined, a string or an array is a     *)
(* record [k, v]: k is its type and v its lexemes (string) or its elements *)
(* (array).  A string of entity names is lexed into names, commas and the  *)
(* blanks next to a comma or an end, so a name is one lexeme.              *)
(***************************************************************************)
Undef == [k |-> "undef", v |-> <<>>]

Str(s) == [k |-> "str", v |-> s]

Arr(a) == [k |-> "arr", v |-> a]

\* JavaScript truthiness: an array is truthy even when empty, a string when not empty.
Truthy(val) == val.k = "arr" \/ (val.k = "str" /\ val.v # <<>>)

\* a || b
OrElse(a, b) == IF Truthy(a) THEN a ELSE b

\* s.split(',').map(e => e.trim()).filter(e => e)
SplitNames(s) == SelectSeq(s, LAMBDA c : c \notin {",", " "})

\* Array.isArray(event.entities) ? event.entities : [event.entity], as a set of keys;
\* an entity that is undefined is the key "undefined".
PrimaryEntities(e) ==
    IF e.entities.k = "arr" THEN e.entities.v
    ELSE IF e.entity.k = "undef" THEN <<"undefined">>
    ELSE e.entity.v

\* Array.isArray(event.secondaryEntities) ? event.secondaryEntities : []
SecondaryEntities(e) == IF e.secondaryEntities.k = "arr" THEN e.secondaryEntities.v ELSE <<>>

\* The range of a sequence.
Range(q) == {q[i] : i \in 1..Len(q)}

\* The fields of eventData / of an update that the model tracks; keys are the properties
\* the object has, a field outside keys holds its falsy default.
MkData(keys, id, title, goal, entity, entities, secondary, deadlineText, sd, ed, og, cd) ==
    [startDate |-> sd, endDate |-> ed, isOngoing |-> og, entities |-> entities,
     entity |-> entity, secondaryEntities |-> secondary, keys |-> keys, id |-> id,
     title |-> title, goal |-> goal, deadlineText |-> deadlineText, computedDate |-> cd]

\* createEvent(eventData) once the deadline text is parsed; fresh is what generateId()
\* returns.
EventFrom(eventData, fresh, parsedDate) ==
    LET given == OrElse(eventData.entities, eventData.entity)
        entities ==
            IF ~Truthy(given) THEN Arr(<<>>)
            ELSE IF given.k = "str" THEN Arr(SplitNames(given.v))
            ELSE given
        sec == OrElse(eventData.secondaryEntities, Arr(<<>>))
        secondaryEntities == IF sec.k = "str" THEN Arr(SplitNames(sec.v)) ELSE sec
        preComputed == eventData.startDate # NullDate \/ eventData.computedDate # NullDate
    IN [startDate |-> IF preComputed
                      THEN (IF eventData.startDate # NullDate THEN eventData.startDate
                            ELSE eventData.computedDate)
                      ELSE parsedDate.startDate,
        endDate |-> IF preComputed THEN eventData.endDate ELSE parsedDate.endDate,
        isOngoing |-> IF preComputed THEN eventData.isOngoing ELSE parsedDate.isOngoing,
        entities |-> entities,
        entity |-> Undef,
        secondaryEntities |-> secondaryEntities,
        id |-> IF eventData.id # 0 THEN eventData.id ELSE fresh,
        title |-> eventData.title,
        goal |-> eventData.goal,
        deadlineText |-> eventData.deadlineText,
        computedDate |-> IF preComputed
                         THEN (IF eventData.computedDate # NullDate THEN eventData.computedDate
                               ELSE eventData.startDate)
                         ELSE parsedDate.startDate]

\* createEvent(eventData)
createEvent(eventData, fresh, now, isWest, legacyDate) ==
    EventFrom(eventData, fresh, parseWith(eventData.deadlineText, now, isWest, legacyDate))

\* createTimeline(name)
createTimeline(name, fresh) ==
    [name |-> IF name = "" THEN "Untitled Timeline" ELSE name, id |-> fresh, events |-> <<>>]

\* The entity handling of updateEvent: a truthy updates.entity becomes updates.entities.
NormalizeUpdates(updates) ==
    IF "entity" \in updates.keys /\ Truthy(updates.entity)
    THEN [updates EXCEPT
            !.entities = IF updates.entity.k = "str" THEN Arr(SplitNames(updates.entity.v))
                         ELSE updates.entity,
            !.entity = Undef,
            !.keys = (updates.keys \ {"entity"}) \cup {"entities"}]
    ELSE updates

\* Object.assign(event, updates) on the tracked fields.
ObjectAssign(event, u) ==
    [startDate |-> IF "startDate" \in u.keys THEN u.startDate ELSE event.startDate,
     endDate |-> IF "endDate" \in u.keys THEN u.endDate ELSE event.endDate,
     isOngoing |-> IF "isOngoing" \in u.keys THEN u.isOngoing ELSE event.isOngoing,
     entities |-> IF "entities" \in u.keys THEN u.entities ELSE event.entities,
     entity |-> IF "entity" \in u.keys THEN u.entity ELSE event.entity,
     secondaryEntities |-> IF "secondaryEntities" \in u.keys THEN u.secondaryEntities
                           ELSE event.secondaryEntities,
     id |-> IF "id" \in u.keys THEN u.id ELSE event.id,
     title |-> IF "title" \in u.keys THEN u.title ELSE event.title,
     goal |-> IF "goal" \in u.keys THEN u.goal ELSE event.goal,
     deadlineText |-> IF "deadlineText" \in u.keys THEN u.deadlineText ELSE event.deadlineText,
     computedDate |-> IF "computedDate" \in u.keys THEN u.computedDate ELSE event.computedDate]

\* updateEvent: the dates recomputed when the updates carry a deadline text.
Recomputed(assigned, u, parsed) ==
    IF "deadlineText" \in u.keys /\ u.deadlineText # <<>>
    THEN [assigned EXCEPT !.startDate = parsed.startDate, !.endDate = parsed.endDate,
                          !.isOngoing = parsed.isOngoing,
                          !.computedDate = parsed.startDate]
    ELSE assigned

\* The body of updateEvent on the event found.
updatedEvent(event, updates, now, isWest, legacyDate) ==
    Recomputed(ObjectAssign(event, NormalizeUpdates(updates)), NormalizeUpdates(updates),
               parseWith(NormalizeUpdates(updates).deadlineText, now, isWest, legacyDate))

\* Index of the timeline with the given id, 0 when there is none (Array.prototype.find).
TimelineIndex(tls, id) ==
    IF \E i \in 1..Len(tls) : tls[i].id = id
    THEN SetMin({i \in 1..Len(tls) : tls[i].id = id})
    ELSE 0

\* getActiveTimeline(): index of the active timeline, else the first one, 0 when none.
ActiveIndex(tls, activeId) ==
    IF TimelineIndex(tls, activeId) # 0 THEN TimelineIndex(tls, activeId)
    ELSE IF Len(tls) > 0 THEN 1 ELSE 0

\* Index of the first event with the given id, 0 when there is none.
EventIndex(evs, id) ==
    IF \E i \in 1..Len(evs) : evs[i].id = id
    THEN SetMin({i \in 1..Len(evs) : evs[i].id = id})
    ELSE 0

\* getEvents()
getEvents(tls, activeId) ==
    IF ActiveIndex(tls, activeId) = 0 THEN <<>> ELSE tls[ActiveIndex(tls, activeId)].events

\* A sequence without its element at index i.
RemoveAt(q, i) == SubSeq(q, 1, i - 1) \o SubSeq(q, i + 1, Len(q))

(***************************************************************************)
(* State                                                                   *)
(***************************************************************************)
VARIABLES
    today,      \* formatDate(new Date()): the local calendar date
    west,       \* the local time zone is behind UTC
    legacy,     \* what new Date(text) yields for a text outside the ISO format
    text,       \* value of the deadline field of the event form
    result,     \* what the input handler's DateParser.parse returned
    phase,      \* "typed": the input event is pending; "parsed": its handler has run
    timelines,  \* DataManager data.timelines
    activeTimelineId,       \* DataManager data.activeTimelineId, 0 for null
    nextId,     \* the number of the next identifier generateId() returns
    stored,     \* localStorage: the saved data and the saved active id
    fetchPending,           \* the sample-timeline fetch of loadSampleTimeline has not settled
    currentEditingEventId,  \* App: the event the form edits, 0 for null
    events,     \* Renderer state.events
    viewMode,   \* Renderer state.viewMode
    zoom,       \* Renderer state.zoom, in hundredths
    panX,       \* Renderer state.panX, in tenths of a pixel
    panY,       \* Renderer state.panY, in tenths of a pixel
    filters,    \* Renderer state.filters
    isDragging, \* Renderer state.isDragging
    width,      \* svg.getBoundingClientRect().width, in tenths of a pixel
    height,     \* svg.getBoundingClientRect().height, in tenths of a pixel
    steps,      \* the number of input events the Renderer has handled
    drawn,      \* the placements the last render() left in the SVG
    entityColors,           \* Renderer state.entityColors: pairs <<entity, colour>>
    otherTab    \* DataManager data of a second tab on the same localStorage

envVars == <<today, west, legacy>>

parserVars == <<text, result, phase>>

storeVars == <<timelines, activeTimelineId, nextId, stored, fetchPending>>

appVars == <<currentEditingEventId, events>>

viewVars == <<viewMode, zoom, panX, panY, filters, isDragging, width, height, steps, drawn>>

vars ==
    <<today, west, legacy, text, result, phase, timelines, activeTimelineId, nextId, stored,
      fetchPending, currentEditingEventId, events, viewMode, zoom, panX, panY, filters,
      isDragging, width, height, steps, drawn, entityColors, otherTab>>

\* DateParser.parse in the current environment.
parse(raw) == parseWith(raw, today, west, legacy)

InitEnv ==
    /\ today \in Todays
    /\ west \in BOOLEAN
    /\ legacy \in LegacyDates

InitParserVars ==
    /\ text \in TextSet \cup {NumberValue}
    /\ result = NullResult
    /\ phase = "typed"

(***************************************************************************)
(* The event form's deadline field: the input event parses the value.      *)
(***************************************************************************)
DeadlineInput ==
    /\ phase = "typed"
    /\ IsString(text)
    /\ result' = parse(text)
    /\ phase' = "parsed"
    /\ UNCHANGED <<envVars, otherTab, text, storeVars, appVars, viewVars, entityColors>>

\* createEvent and updateEvent parse the deadlineText they are given, whatever JSON value
\* an imported file or a caller of the interface put there.
ParseDeadlineText ==
    /\ phase = "typed"
    /\ result' = parse(text)
    /\ phase' = "parsed"
    /\ UNCHANGED <<envVars, otherTab, text, storeVars, appVars, viewVars, entityColors>>

\* DataManager.init() on an empty localStorage: no timeline yet, the fetch is under way.
InitStoreVars ==
    /\ timelines = <<>>
    /\ activeTimelineId = 0
    /\ nextId = 1
    /\ stored = [timelines |-> <<>>, activeTimelineId |-> 0]
    /\ fetchPending = TRUE
    /\ otherTab = [tls |-> <<>>, active |-> 0]

InitAppVars ==
    /\ currentEditingEventId = 0
    /\ events = <<>>

\* The Renderer's state as its module creates it, on a canvas of 1000 by 600 pixels.
InitViewVars ==
    /\ viewMode = "single"
    /\ zoom = 100
    /\ panX = 0
    /\ panY = 0
    /\ filters = [entity |-> "", goal |-> "", search |-> ""]
    /\ isDragging = FALSE
    /\ width = 10000
    /\ height = 6000
    /\ steps = 0
    /\ drawn = {}
    /\ entityColors = {}

\* The parts of the state a specification leaves alone.
IdleParser ==
    /\ text = <<>>
    /\ result = NullResult
    /\ phase = "parsed"

InitParser == InitEnv /\ InitParserVars /\ InitStoreVars /\ InitAppVars /\ InitViewVars

NextParser == DeadlineInput \/ ParseDeadlineText

SpecParser == InitParser /\ [][NextParser]_vars


(***************************************************************************)
(* Properties of DateParser                                                *)
(***************************************************************************)
IsPoint(r) == ~r.isNull /\ r.startDate # NullDate /\ r.endDate = NullDate /\ ~r.isOngoing

IsRange(r) == ~r.isNull /\ r.startDate # NullDate /\ r.endDate # NullDate /\ ~r.isOngoing

IsOngoing(r) == ~r.isNull /\ r.startDate # NullDate /\ r.endDate = NullDate /\ r.isOngoing

\* One of the four literals in any case, with nothing but blanks around it.
IsOngoingText(t) ==
    \E i \in 1..Len(t) :
        /\ t[i] \in {"ongoing", "ONGOING", "Ongoing", "continuous", "Continuous", "tbd", "TBD",
                     "indefinite", "Indefinite"}
        /\ \A j \in 1..Len(t) : j # i => t[j] = " "

\* C8: every non-null result of parse is a point, a range or an ongoing value (an ongoing
\* value never carries an endDate), and the literals ongoing, continuous, tbd and
\* indefinite, in any case and with blanks around them, parse to isOngoing = TRUE with
\* startDate = today and no endDate.
C8_ResultShape ==
    phase = "parsed" =>
        /\ ~result.isNull => (IsPoint(result) \/ IsRange(result) \/ IsOngoing(result))
        /\ IsOngoingText(text) => result = MkResult(today, NullDate, TRUE)

\* A padded, upper-case literal has been parsed to an ongoing value.
C8_Witness ==
    /\ phase = "parsed"
    /\ text = <<" ", "ONGOING", " ">>
    /\ IsOngoing(result)

\* The representative month the documentation gives for a quarter.
RepresentativeMonth(n) == CASE n = 1 -> 2 [] n = 2 -> 5 [] n = 3 -> 8 [] n = 4 -> 11

\* The texts "Qn Y", "quarter n Y" and "quarter n of Y" with n in 1..4 and a 4-digit year.
IsQuarterText(t) ==
    \E h \in {<<"q">>, <<"Q">>, <<"quarter", " ">>, <<"Quarter", " ">>} :
    \E o \in {<<" ">>, <<" ", "of", " ">>} :
        /\ Len(t) = Len(h) + 1 + Len(o) + 4
        /\ SubSeq(t, 1, Len(h)) = h
        /\ t[Len(h) + 1] \in {"1", "2", "3", "4"}
        /\ SubSeq(t, Len(h) + 2, Len(h) + 1 + Len(o)) = o
        /\ \A k \in 1..4 : t[Len(t) - 4 + k] \in Digits
        /\ (o = <<" ", "of", " ">> => h \in {<<"quarter", " ">>, <<"Quarter", " ">>})

QuarterOfText(t) ==
    IF t[1] \in {"q", "Q"} THEN DigitVal(t[2]) ELSE DigitVal(t[3])

\* C10: parse of "Qn Y" or "quarter n [of] Y" is the point at day 1 of the quarter's
\* representative month: February, May, August, November.
C10_QuarterMonth ==
    (phase = "parsed" /\ IsQuarterText(text)) =>
        result = PointResult(MkDate(NumVal(text, Len(text) - 3, 4),
                                    RepresentativeMonth(QuarterOfText(text)), 1))

\* C9: every range parse returns ends no earlier than it starts, whatever the order of
\* the two periods in the text.
C9_RangeOrdered ==
    (phase = "parsed" /\ IsRange(result)) => DateLE(result.startDate, result.endDate)

\* A vague period and nothing else: early, mid or late, a hyphen or a blank, four digits.
IsVagueText(t) ==
    Len(t) = 6 /\ t[1] \in {"early", "mid", "late"} /\ t[2] \in {"-", " "} /\ Dn(t, 3, 4) # 0

\* The month the documentation gives for a vague period.
DocumentedVagueMonth(word) == CASE word = "early" -> 3 [] word = "mid" -> 7 [] word = "late" -> 11

\* C11: "early-Y" and "early Y" parse to the point Y-03-01, "mid" to Y-07-01 and "late" to
\* Y-11-01.
C11_VagueMonths ==
    (phase = "parsed" /\ IsVagueText(text)) =>
        result = PointResult(MkDate(NumVal(text, 3, 4), DocumentedVagueMonth(text[1]), 1))

\* The number of the month a name or abbreviation stands for in the calendar.
CalendarMonth(name) ==
    CASE name \in {"january", "jan"} -> 1 [] name \in {"february", "feb"} -> 2
      [] name \in {"march", "mar"} -> 3 [] name \in {"april", "apr"} -> 4
      [] name = "may" -> 5 [] name \in {"june", "jun"} -> 6
      [] name \in {"july", "jul"} -> 7 [] name \in {"august", "aug"} -> 8
      [] name \in {"september", "sep", "sept"} -> 9 [] name \in {"october", "oct"} -> 10
      [] name \in {"november", "nov"} -> 11 [] name \in {"december", "dec"} -> 12

\* The typed text as parse sees it, and the place of the end period after its separator.
Typed == Trim(ToLowerCase(text))

EndPeriodPos(t) == SkipWs(t, (CHOOSE k \in 1..Len(t) : t[k] \in Dashes) + 1)

\* The four kinds of range text: the whole text is one range.
IsMonthRangeYearsText(t) == t # <<>> /\ MonthRangeYearsAt(t, 1) = Len(t) + 1

IsMonthRangeText(t) == t # <<>> /\ MonthRangeAt(t, 1) = Len(t) + 1

IsQuarterRangeText(t) ==
    /\ t # <<>> /\ QuarterRangeAt(t, 1) = Len(t) + 1
    /\ NumVal(t, 2, 1) \in 1..4 /\ NumVal(t, EndPeriodPos(t) + 1, 1) \in 1..4

IsYearRangeText(t) == t # <<>> /\ YearRangeAt(t, 1) = Len(t) + 1

\* What the documentation gives for a range text: the first day of the start period and
\* the 28th of the end period's last month, or January 1 and December 31 for years.
DocumentedRange(t) ==
    LET year == NumVal(t, Len(t) - 3, 4)
    IN IF IsMonthRangeYearsText(t)
       THEN MkResult(MkDate(NumVal(t, 3, 4), CalendarMonth(t[1]), 1),
                     MkDate(year, CalendarMonth(t[EndPeriodPos(t)]), 28), FALSE)
       ELSE IF IsMonthRangeText(t)
       THEN MkResult(MkDate(year, CalendarMonth(t[1]), 1),
                     MkDate(year, CalendarMonth(t[EndPeriodPos(t)]), 28), FALSE)
       ELSE IF IsQuarterRangeText(t)
       THEN MkResult(MkDate(year, 3 * (NumVal(t, 2, 1) - 1) + 1, 1),
                     MkDate(year, 3 * NumVal(t, EndPeriodPos(t) + 1, 1), 28), FALSE)
       ELSE MkResult(MkDate(NumVal(t, 1, 4), 1, 1), MkDate(year, 12, 31), FALSE)

IsRangeText(t) ==
    IsMonthRangeYearsText(t) \/ IsMonthRangeText(t) \/ IsQuarterRangeText(t)
    \/ IsYearRangeText(t)

\* C12: a range text parses to the first day of its start period and the 28th of its end
\* period's last month (January 1 and December 31 for a year range), whichever dash
\* separates the periods.
C12_RangeEnds == (phase = "parsed" /\ IsRangeText(Typed)) => result = DocumentedRange(Typed)

C12_Witness ==
    /\ phase = "parsed"
    /\ text = <<"Q", "2", "emdash", "Q", "3", " ", "2", "0", "2", "6">>
    /\ result = MkResult(MkDate(2026, 4, 1), MkDate(2026, 9, 28), FALSE)

IsByYearText(t) == Len(t) = 6 /\ t[1] = "by" /\ t[2] = " " /\ Dn(t, 3, 4) # 0

IsBareYearText(t) == Len(t) = 4 /\ Dn(t, 1, 4) # 0

\* C13: for a year Y of 2000..2100 "by Y" parses to the point Y-01-01 and the bare "Y" to
\* the point Y-07-01; the year strategy resolves no bare four-digit number outside
\* 2000..2100.
C13_YearStrategy ==
    phase = "parsed" =>
        LET year == NumVal(Typed, Len(Typed) - 3, 4)
        IN /\ (IsByYearText(Typed) /\ year \in 2000..2100) =>
                  result = PointResult(MkDate(year, 1, 1))
           /\ (IsBareYearText(Typed) /\ year \in 2000..2100) =>
                  result = PointResult(MkDate(year, 7, 1))
           /\ (IsBareYearText(Typed) /\ year \notin 2000..2100) =>
                  (parseYear(Typed) = NullDate /\ result # PointResult(MkDate(year, 7, 1)))

C13_Witness ==
    /\ phase = "parsed"
    /\ text = <<"2", "1", "0", "0">>
    /\ result = PointResult(MkDate(2100, 7, 1))

\* Where the digits of a fiscal-year text start: after "fy" or after "fiscal year", 0 for
\* any other text.
FiscalDigitsPos(t) ==
    IF Len(t) >= 1 /\ t[1] = "fy" THEN SkipWs(t, 2)
    ELSE IF Len(t) >= 4 /\ SubSeq(t, 1, 3) = <<"fiscal", " ", "year">> THEN SkipWs(t, 4)
    ELSE 0

\* "fyNN", "fyNNNN" or "fiscal year <year>": two or four digits end the text.
IsFiscalText(t) ==
    /\ FiscalDigitsPos(t) # 0
    /\ Len(t) - FiscalDigitsPos(t) + 1 \in {2, 4}
    /\ Dn(t, FiscalDigitsPos(t), Len(t) - FiscalDigitsPos(t) + 1) # 0

FiscalYearOf(t) ==
    IF Len(t) - FiscalDigitsPos(t) + 1 = 2 THEN 2000 + NumVal(t, FiscalDigitsPos(t), 2)
    ELSE NumVal(t, FiscalDigitsPos(t), 4)

\* C14: a fiscal-year text parses to the point September 30 of the fiscal year, a
\* two-digit year NN standing for 2000 + NN.
C14_FiscalYear ==
    (phase = "parsed" /\ IsFiscalText(Typed)) =>
        result = PointResult(MkDate(FiscalYearOf(Typed), 9, 30))

C14_Witness ==
    /\ phase = "parsed"
    /\ text = <<"FY", "2", "7">>
    /\ result = PointResult(MkDate(2027, 9, 30))

\* Some strategy of parse resolves the normalized text.
Resolved(t) ==
    \/ t \in OngoingLiterals
    \/ ~parseRange(t).isNull
    \/ {parseFiscalYear(t), parseQuarter(t), parseSeason(t), parseMonth(t),
        parseVaguePeriod(t), parseEndOfYear(t), parseStartingIn(t), parseYear(t)}
       # {NullDate}

\* C15: parse never throws, and it returns null exactly when the text is empty or when
\* no strategy resolves it and the generic date parse of the raw text fails as well.
C15_ParseTotal ==
    phase = "parsed" =>
        /\ ~result.threw
        /\ result.isNull <=>
               (text = <<>> \/ (~Resolved(Typed) /\ GenericDate(text, west, legacy) = NullDate))

\* The range a month range with two years stands for, null when the text holds none.
TwoYearMonthRange(t) ==
    LET i == FirstPos(MonthRangeYearsAt, t)
        y1 == Ws1(t, i + 1)
        m2 == Ws0(t, Tok(t, Ws0(t, y1 + 4), Dashes))
    IN IF i = 0 THEN NullResult
       ELSE MkResult(MkDate(NumVal(t, y1, 4), MONTHS(t[i]) + 1, 1),
                     MkDate(NumVal(t, Ws1(t, m2 + 1), 4), MONTHS(t[m2]) + 1, 28), FALSE)

\* The range a month range with a shared year stands for.
SharedYearMonthRange(t) ==
    LET i == FirstPos(MonthRangeAt, t)
        m2 == Ws0(t, Tok(t, Ws0(t, i + 1), Dashes))
        year == NumVal(t, Ws1(t, m2 + 1), 4)
    IN IF i = 0 THEN NullResult
       ELSE MkResult(MkDate(year, MONTHS(t[i]) + 1, 1), MkDate(year, MONTHS(t[m2]) + 1, 28),
                     FALSE)

\* The reading of a single-date strategy as a result of parse.
Reading(date) == IF date = NullDate THEN NullResult ELSE PointResult(date)

\* What each strategy alone makes of the text, in the documented order: the four range
\* strategies, the eight single-date strategies, the generic date of the raw text.
StrategyReadings(raw) ==
    <<TwoYearMonthRange(Trim(ToLowerCase(raw))),
      SharedYearMonthRange(Trim(ToLowerCase(raw))),
      QuarterRangeResult(Trim(ToLowerCase(raw))),
      YearRangeResult(Trim(ToLowerCase(raw))),
      Reading(parseFiscalYear(Trim(ToLowerCase(raw)))),
      Reading(parseQuarter(Trim(ToLowerCase(raw)))),
      Reading(parseSeason(Trim(ToLowerCase(raw)))),
      Reading(parseMonth(Trim(ToLowerCase(raw)))),
      Reading(parseVaguePeriod(Trim(ToLowerCase(raw)))),
      Reading(parseEndOfYear(Trim(ToLowerCase(raw)))),
      Reading(parseStartingIn(Trim(ToLowerCase(raw)))),
      Reading(parseYear(Trim(ToLowerCase(raw)))),
      Reading(GenericDate(raw, west, legacy))>>

\* The strategies that match, by their place in the order.
Matching(readings) == {k \in 1..Len(readings) : ~readings[k].isNull}

\* The reading of the earliest strategy that matches.
EarliestReading(readings) ==
    IF Matching(readings) = {} THEN NullResult ELSE readings[SetMin(Matching(readings))]

\* C25: for a text that is no ongoing literal, parse returns the reading of the earliest
\* strategy that matches, in the order two-year month range, shared-year month range,
\* quarter range, year range, fiscal year, quarter, season, month and year, early/mid/late,
\* end of year, starting in, bare year, generic date; a text that a range strategy matches
\* yields a range and not the single-date reading of a part of it.
C25_EarliestStrategyWins ==
    (phase = "parsed" /\ IsString(text) /\ text # <<>> /\ Typed \notin OngoingLiterals) =>
        /\ result = EarliestReading(StrategyReadings(text))
        /\ Matching(StrategyReadings(text)) \cap 1..4 # {} => IsRange(result)

\* 'april-June 2026' is a shared-year month range and holds the month and year 'June 2026'.
C25_Witness ==
    /\ phase = "parsed"
    /\ text = <<"april", "-", "June", " ", "2", "0", "2", "6">>
    /\ {2, 8} \subseteq Matching(StrategyReadings(text))
    /\ IsPoint(StrategyReadings(text)[8])
    /\ result = MkResult(MkDate(2026, 4, 1), MkDate(2026, 6, 28), FALSE)


(***************************************************************************)
(* DataManager: operations.  D is the in-memory data [tls, active]; saved  *)
(* tells whether save() ran, threw whether the call raised an error.       *)
(*                                                                         *)
(* generateId() builds an identifier from the clock and a random suffix:   *)
(* the model numbers the identifiers in the order they are generated; n is *)
(* the number of identifiers the call generated.                           *)
(***************************************************************************)
\* Largest number of timelines and of events the store holds, and of identifiers
\* generateId() hands out.
MaxTimelines == 2

MaxEvents == 2

MaxId == 4

Data == [tls |-> timelines, active |-> activeTimelineId]

Ret(D, saved, threw, n) == [n |-> n, threw |-> threw, D |-> D, saved |-> saved]

\* The k-th identifier generateId() returns in the current call.
Fresh(k) == nextId + k - 1

createEventIn(eventData, k) == createEvent(eventData, Fresh(k), today, west, legacy)

\* The number of identifiers generated for the events q[1..k]: one for each event that
\* brings none.
Generated(q, k) == Cardinality({j \in 1..k : q[j].id = 0})

\* addEvent(eventData)
addEvent(D, eventData) ==
    LET i == ActiveIndex(D.tls, D.active)
    IN IF i = 0 THEN Ret(D, FALSE, FALSE, 0)
       ELSE Ret([D EXCEPT !.tls[i].events = Append(@, createEventIn(eventData, 1))],
                TRUE, FALSE, Generated(<<eventData>>, 1))

\* updateEvent(id, updates)
updateEvent(D, id, updates) ==
    LET i == ActiveIndex(D.tls, D.active)
        j == IF i = 0 THEN 0 ELSE EventIndex(D.tls[i].events, id)
    IN IF j = 0 THEN Ret(D, FALSE, FALSE, 0)
       ELSE Ret([D EXCEPT !.tls[i].events[j] = updatedEvent(@, updates, today, west, legacy)],
                TRUE, FALSE, 0)

\* deleteEvent(id)
deleteEvent(D, id) ==
    LET i == ActiveIndex(D.tls, D.active)
        j == IF i = 0 THEN 0 ELSE EventIndex(D.tls[i].events, id)
    IN IF j = 0 THEN Ret(D, FALSE, FALSE, 0)
       ELSE Ret([D EXCEPT !.tls[i].events = RemoveAt(@, j)], TRUE, FALSE, 0)

\* addTimeline(name)
addTimeline(D, name) ==
    Ret([tls |-> Append(D.tls, createTimeline(name, Fresh(1))), active |-> Fresh(1)],
        TRUE, FALSE, 1)

\* deleteTimeline(id)
deleteTimeline(D, id) ==
    LET i == TimelineIndex(D.tls, id)
        rest == RemoveAt(D.tls, i)
        active1 == IF D.active = id THEN (IF rest = <<>> THEN 0 ELSE rest[1].id) ELSE D.active
    IN IF i = 0 THEN Ret(D, FALSE, FALSE, 0)
       ELSE IF rest = <<>>
            THEN Ret([tls |-> <<createTimeline("My Timeline", Fresh(1))>>,
                      active |-> Fresh(1)], TRUE, FALSE, 1)
            ELSE Ret([tls |-> rest, active |-> active1], TRUE, FALSE, 0)

\* duplicateTimeline(id): the copy's id is generated first, then one id per event.  (The
\* copy's name, the source's with " (Copy)" appended, is kept as the source's name.)
duplicateTimeline(D, id) ==
    LET i == TimelineIndex(D.tls, id)
        src == D.tls[i]
        copy == [name |-> src.name, id |-> Fresh(1),
                 events |-> [k \in 1..Len(src.events) |->
                                [src.events[k] EXCEPT !.id = Fresh(k + 1)]]]
    IN IF i = 0 THEN Ret(D, FALSE, FALSE, 0)
       ELSE Ret([tls |-> Append(D.tls, copy), active |-> Fresh(1)], TRUE, FALSE,
                1 + Len(src.events))

\* setActiveTimeline(id)
setActiveTimeline(D, id) ==
    IF TimelineIndex(D.tls, id) = 0 THEN Ret(D, FALSE, FALSE, 0)
    ELSE Ret([D EXCEPT !.active = id], TRUE, FALSE, 0)

\* clearAll()
clearAll(D) ==
    Ret([tls |-> <<createTimeline("My Timeline", Fresh(1))>>, active |-> Fresh(1)],
        TRUE, FALSE, 1)

\* A validation that does not look at deadlineText.
ValidImportedEventMutant(e) ==
    LET hasEntity == Truthy(e.entity) \/ (Truthy(e.entities) /\ Len(e.entities.v) > 0)
    IN ~(e.title = "" \/ e.goal = "" \/ ~hasEntity)

\* The validation of one imported event.
ValidImportedEvent(e) ==
    LET hasEntity == Truthy(e.entity) \/ (Truthy(e.entities) /\ Len(e.entities.v) > 0)
    IN ~(e.title = "" \/ e.goal = "" \/ ~hasEntity \/ e.deadlineText = <<>>)

\* importTimeline(jsonString); imported is JSON.parse(jsonString), wellFormed tells
\* whether JSON.parse succeeded.  The timeline's identifier is generated first.
importTimeline(D, imported) ==
    IF \/ ~imported.wellFormed
       \/ imported.name = ""
       \/ ~imported.eventsIsArray
       \/ \E k \in 1..Len(imported.events) : ~ValidImportedEvent(imported.events[k])
    THEN Ret(D, FALSE, TRUE, 0)
    ELSE LET evs == [k \in 1..Len(imported.events) |->
                        createEventIn(imported.events[k],
                                      1 + Generated(imported.events, k))]
             timeline == [createTimeline(imported.name, Fresh(1)) EXCEPT !.events = evs]
         IN Ret([tls |-> Append(D.tls, timeline), active |-> Fresh(1)], TRUE, FALSE,
                1 + Generated(imported.events, Len(imported.events)))

\* JSON.parse(JSON.stringify(e)) of a stored event: every property is kept, the identifier
\* and the cached dates included.
ExportedEvent(e) ==
    MkData({"id", "title", "goal", "entities", "secondaryEntities", "deadlineText",
            "startDate", "endDate", "isOngoing", "computedDate"},
           e.id, e.title, e.goal, e.entity, e.entities, e.secondaryEntities, e.deadlineText,
           e.startDate, e.endDate, e.isOngoing, e.computedDate)

\* exportTimeline(): the JSON text of the active timeline, given as what JSON.parse makes
\* of it; without an active timeline the text is undefined and does not parse.
exportTimeline(D) ==
    LET i == ActiveIndex(D.tls, D.active)
    IN IF i = 0
       THEN [name |-> "", events |-> <<>>, wellFormed |-> FALSE, eventsIsArray |-> FALSE]
       ELSE [name |-> D.tls[i].name,
             events |-> [k \in 1..Len(D.tls[i].events) |-> ExportedEvent(D.tls[i].events[k])],
             wellFormed |-> TRUE, eventsIsArray |-> TRUE]

\* importAll(jsonString)
importAll(D, imported) ==
    IF ~imported.wellFormed \/ ~imported.timelinesIsArray THEN Ret(D, FALSE, TRUE, 0)
    ELSE IF imported.timelines = <<>>
         THEN Ret([tls |-> <<createTimeline("My Timeline", Fresh(1))>>,
                   active |-> Fresh(1)], TRUE, FALSE, 1)
         ELSE Ret([tls |-> imported.timelines, active |-> imported.activeTimelineId],
                  TRUE, FALSE, 0)

\* The effect of a DataManager call on the store's variables.
Commit(r) ==
    /\ timelines' = r.D.tls
    /\ activeTimelineId' = r.D.active
    /\ nextId' = nextId + r.n
    /\ stored' = IF r.saved THEN [timelines |-> r.D.tls, activeTimelineId |-> r.D.active]
                 ELSE stored

\* The number of events in a list of timelines.
RECURSIVE EventCount(_)
EventCount(tls) == IF tls = <<>> THEN 0 ELSE Len(Head(tls).events) + EventCount(Tail(tls))

\* The bounds of the model on what a call may build.
WithinBounds(r) ==
    /\ Len(r.D.tls) <= MaxTimelines
    /\ EventCount(r.D.tls) <= MaxEvents
    /\ nextId + r.n <= MaxId + 1


(***************************************************************************)
(* DataManager and event form: inputs                                      *)
(***************************************************************************)
TextQ1 == <<"Q", "1", " ", "2", "0", "2", "6">>

TextRange == <<"April", "-", "June", " ", "2", "0", "2", "6">>

TextReversed == <<"June", "-", "April", " ", "2", "0", "2", "6">>

TextBad == <<"xyz">>

FormKeys == {"title", "goal", "entity", "secondaryEntities", "deadlineText"}

\* What saveEvent reads from the form.
FormData(title, goal, entity, secondary, deadlineText) ==
    MkData(FormKeys, 0, title, goal, Str(entity), Undef, Str(secondary), deadlineText,
           NullDate, NullDate, FALSE, NullDate)

FormDataSet ==
    {FormData("t", "g", <<"A">>, <<>>, t) : t \in {TextQ1, TextBad}}
    \cup {FormData("", "g", <<"A">>, <<"B">>, TextQ1)}
    \cup {FormData("t", "g", <<",">>, <<>>, TextQ1), FormData("t", "g", <<"A">>, <<"B">>, TextQ1)}

\* An event as exportTimeline writes it: identifier and cached dates included.
ExportedData(id, deadlineText, sd, ed, og, cd) ==
    MkData({"id", "title", "goal", "entities", "secondaryEntities", "deadlineText",
            "startDate", "endDate", "isOngoing", "computedDate"},
           id, "t", "g", Undef, Arr(<<"A">>), Arr(<<>>), deadlineText, sd, ed, og, cd)

\* An exported event whose deadline text was edited in the file afterwards.
StaleExport == ExportedData(9, TextQ1, MkDate(1999, 1, 1), NullDate, FALSE, MkDate(1999, 1, 1))

\* Event data handed to addEvent and found in imported files.
ApiDataSet == {FormData("t", "g", <<"A">>, <<>>, TextBad), StaleExport}

\* An update of some fields.
Update(keys, deadlineText, sd) ==
    MkData(keys, 0, "t", "g", Undef, Undef, Undef, deadlineText, sd, NullDate, FALSE, NullDate)

UpdateSet ==
    {Update({"deadlineText"}, TextBad, NullDate),
     Update({"startDate"}, <<>>, MkDate(1999, 1, 1))}

\* Events that lack a title, an entity (in either form) or a deadline text.
IncompleteEvents ==
    {FormData("", "g", <<"A">>, <<>>, TextQ1),
     FormData("t", "g", <<>>, <<>>, TextQ1),
     [FormData("t", "g", <<>>, <<>>, TextQ1) EXCEPT !.entities = Arr(<<>>)],
     FormData("t", "g", <<"A">>, <<>>, <<>>)}

\* Files without a name, with events that is no array, and with an incomplete event
\* alone or after a complete one.
RejectedFiles ==
    {[name |-> "", events |-> <<FormData("t", "g", <<"A">>, <<>>, TextQ1)>>,
      wellFormed |-> TRUE, eventsIsArray |-> TRUE],
     [name |-> "Plan", events |-> <<>>, wellFormed |-> TRUE, eventsIsArray |-> FALSE]}
    \cup {[name |-> "Plan", events |-> <<e>>, wellFormed |-> TRUE, eventsIsArray |-> TRUE] :
             e \in IncompleteEvents}
    \cup {[name |-> "Plan", events |-> <<FormData("t", "g", <<"A">>, <<>>, TextQ1), e>>,
           wellFormed |-> TRUE, eventsIsArray |-> TRUE] :
             e \in IncompleteEvents}

\* JSON.parse of a file handed to importTimeline.
ImportSet ==
    {[name |-> "Plan", events |-> <<e>>, wellFormed |-> TRUE, eventsIsArray |-> TRUE] :
        e \in ApiDataSet \cup {FormData("t", "", <<"A">>, <<>>, TextQ1)}}
    \cup {[name |-> "", events |-> <<>>, wellFormed |-> FALSE, eventsIsArray |-> FALSE]}
    \cup RejectedFiles

\* The sample timeline the first start fetches: a valid file.
SampleTimeline ==
    [name |-> "Plan", events |-> <<FormData("t", "g", <<"A">>, <<>>, TextQ1)>>,
     wellFormed |-> TRUE, eventsIsArray |-> TRUE]

\* A stored event as a backup file may hold it.
BackupEvent(id, deadlineText, sd) ==
    [startDate |-> sd, endDate |-> NullDate, isOngoing |-> FALSE, entities |-> Arr(<<"A">>),
     entity |-> Undef, secondaryEntities |-> Arr(<<>>), id |-> id, title |-> "t",
     goal |-> "g", deadlineText |-> deadlineText, computedDate |-> sd]

\* JSON.parse of a file handed to importAll.
ImportAllSet ==
    {[timelines |-> <<>>, activeTimelineId |-> 0, wellFormed |-> FALSE,
      timelinesIsArray |-> FALSE],
     [timelines |-> <<>>, activeTimelineId |-> 0, wellFormed |-> TRUE,
      timelinesIsArray |-> TRUE],
     [timelines |-> <<[name |-> "Plan", id |-> 8,
                       events |-> <<BackupEvent(9, TextBad, MkDate(1999, 1, 1))>>]>>,
      activeTimelineId |-> 8, wellFormed |-> TRUE, timelinesIsArray |-> TRUE]}

TimelineIds == {timelines[i].id : i \in 1..Len(timelines)}

ActiveEventIds == {getEvents(timelines, activeTimelineId)[i].id :
                      i \in 1..Len(getEvents(timelines, activeTimelineId))}

(***************************************************************************)
(* DataManager: the calls of its public interface                          *)
(***************************************************************************)
Call(r) ==
    /\ WithinBounds(r)
    /\ Commit(r)
    /\ UNCHANGED <<envVars, otherTab, parserVars, fetchPending, appVars, viewVars, entityColors>>

AddEvent == \E d \in ApiDataSet : Call(addEvent(Data, d))

UpdateEvent == \E id \in ActiveEventIds, u \in UpdateSet : Call(updateEvent(Data, id, u))

DeleteEvent == \E id \in ActiveEventIds : Call(deleteEvent(Data, id))

AddTimeline == Call(addTimeline(Data, "Plan"))

DeleteTimeline == \E id \in TimelineIds : Call(deleteTimeline(Data, id))

DuplicateTimeline == \E id \in TimelineIds : Call(duplicateTimeline(Data, id))

SetActiveTimeline == \E id \in TimelineIds : Call(setActiveTimeline(Data, id))

ClearAll == Call(clearAll(Data))

ImportTimeline == \E f \in ImportSet : Call(importTimeline(Data, f))

ImportAll == \E f \in ImportAllSet : Call(importAll(Data, f))

\* The active timeline is exported and the exported text imported again.
ExportImport == Call(importTimeline(Data, exportTimeline(Data)))

\* loadSampleTimeline: the fetch delivers the sample file, which is imported.
FetchDone ==
    /\ fetchPending
    /\ fetchPending' = FALSE
    /\ WithinBounds(importTimeline(Data, SampleTimeline))
    /\ Commit(importTimeline(Data, SampleTimeline))
    /\ UNCHANGED <<envVars, otherTab, parserVars, appVars, viewVars, entityColors>>

\* loadSampleTimeline: the fetch fails, an empty timeline is created instead.
FetchFailed ==
    /\ fetchPending
    /\ fetchPending' = FALSE
    /\ WithinBounds(addTimeline(Data, "My Timeline"))
    /\ Commit(addTimeline(Data, "My Timeline"))
    /\ UNCHANGED <<envVars, otherTab, parserVars, appVars, viewVars, entityColors>>

(***************************************************************************)
(* Renderer: the colours of the entities                                   *)
(***************************************************************************)
COLORS ==
    <<"#E74C3C", "#3498DB", "#2ECC71", "#F39C12", "#9B59B6", "#1ABC9C", "#E67E22",
      "#16A085", "#27AE60", "#2980B9", "#8E44AD", "#C0392B", "#D35400", "#F1C40F",
      "#E84393", "#00B894", "#0984E3", "#6C5CE7", "#FD79A8", "#FDCB6E", "#00CEC9",
      "#FF7675", "#74B9FF", "#A29BFE", "#55EFC4">>

\* What assignColors adds to its Set for one event: the keys of event.entities when that is
\* an array, else a truthy event.entity (a name of one lexeme, which is its own key).
EntitiesOfEvent(e) ==
    IF e.entities.k = "arr" THEN e.entities.v
    ELSE IF Truthy(e.entity) THEN e.entity.v
    ELSE <<>>

\* Array.from(new Set(...)): the keys in the order of their first insertion.
RECURSIVE AddAll(_, _)
AddAll(seen, keys) ==
    IF keys = <<>> THEN seen
    ELSE AddAll(IF \E i \in 1..Len(seen) : seen[i] = Head(keys) THEN seen
                ELSE Append(seen, Head(keys)),
                Tail(keys))

RECURSIVE EntitySet(_, _)
EntitySet(seen, evs) ==
    IF evs = <<>> THEN seen ELSE EntitySet(AddAll(seen, EntitiesOfEvent(Head(evs))), Tail(evs))

\* The entities that have a colour.
Coloured(colors) == {p[1] : p \in colors}

\* assignColors(events): the i-th entity of the events (from 0) gets COLORS[i % length]
\* unless it has a colour already.
assignColors(colors, evs) ==
    colors \cup {<<EntitySet(<<>>, evs)[i], COLORS[((i - 1) % Len(COLORS)) + 1]>> :
                    i \in {j \in 1..Len(EntitySet(<<>>, evs)) :
                              EntitySet(<<>>, evs)[j] \notin Coloured(colors)}}

(***************************************************************************)
(* App: the handlers of the timeline list, the event form and the import   *)
(***************************************************************************)
\* refreshUI() hands the active timeline's events to the renderer's setEvents.
RefreshUI ==
    /\ events' = getEvents(timelines', activeTimelineId')
    /\ entityColors' = assignColors(entityColors, events')

\* A DataManager call of a handler, followed by refreshUI().
Handle(r) ==
    /\ WithinBounds(r)
    /\ Commit(r)
    /\ RefreshUI
    /\ UNCHANGED <<envVars, otherTab, parserVars, fetchPending, currentEditingEventId, viewVars>>

\* saveTimeline in mode 'new'; an empty name is refused with an alert.
SaveTimeline == Handle(addTimeline(Data, "Plan"))

\* The buttons and the click of an item of the timeline list.
ClickDuplicate == \E id \in TimelineIds : Handle(duplicateTimeline(Data, id))

ClickDelete == \E id \in TimelineIds : Handle(deleteTimeline(Data, id))

ClickTimeline == \E id \in TimelineIds : Handle(setActiveTimeline(Data, id))

ShowNewEventModal ==
    /\ currentEditingEventId' = 0
    /\ UNCHANGED <<envVars, otherTab, parserVars, storeVars, events, viewVars, entityColors>>

\* A click on a displayed event shows its card, whose edit button opens the event in the
\* form when DataManager.getEvent still finds it.
ShowEditEventModal ==
    \E k \in 1..Len(events) :
        /\ events[k].id \in ActiveEventIds
        /\ currentEditingEventId' = events[k].id
        /\ UNCHANGED <<envVars, otherTab, parserVars, storeVars, events, viewVars, entityColors>>

\* saveEvent refuses the form when a required field is empty or the text does not parse.
Rejected(eventData) ==
    \/ eventData.title = "" \/ eventData.goal = "" \/ ~Truthy(eventData.entity)
    \/ eventData.deadlineText = <<>>
    \/ parse(eventData.deadlineText).isNull

saveEventResult(eventData) ==
    IF currentEditingEventId # 0
    THEN updateEvent(Data, currentEditingEventId, eventData)
    ELSE addEvent(Data, eventData)

SaveEvent ==
    \E d \in FormDataSet :
        IF Rejected(d)
        THEN UNCHANGED vars
        ELSE Handle(saveEventResult(d))

DeleteCurrentEvent ==
    /\ currentEditingEventId # 0
    /\ Handle(deleteEvent(Data, currentEditingEventId))

\* handleFileImport: a rejected file only raises an alert.
HandleFileImport ==
    \E f \in ImportSet :
        IF importTimeline(Data, f).threw
        THEN UNCHANGED vars
        ELSE Handle(importTimeline(Data, f))

InitStore ==
    /\ today = MkDate(2026, 11, 1) /\ west = FALSE /\ legacy = NullDate
    /\ IdleParser /\ InitStoreVars /\ InitAppVars /\ InitViewVars

NextStore ==
    \/ AddEvent \/ UpdateEvent \/ DeleteEvent
    \/ AddTimeline \/ DeleteTimeline \/ DuplicateTimeline \/ SetActiveTimeline \/ ClearAll
    \/ ImportTimeline \/ ImportAll \/ ExportImport
    \/ FetchDone \/ FetchFailed

SpecStore == InitStore /\ [][NextStore]_vars

NextApp ==
    \/ FetchDone \/ FetchFailed
    \/ SaveTimeline \/ ClickDuplicate \/ ClickDelete \/ ClickTimeline
    \/ ShowNewEventModal \/ ShowEditEventModal \/ SaveEvent \/ DeleteCurrentEvent
    \/ HandleFileImport

SpecApp == InitStore /\ [][NextApp]_vars

(***************************************************************************)
(* Two tabs on one localStorage.  Each tab runs its own DataManager: init() *)
(* reads localStorage once, every call changes the tab's own data and      *)
(* save() writes all of it.  timelines and activeTimelineId are the data   *)
(* of the first tab, otherTab the data of the second.                      *)
(***************************************************************************)
\* What localStorage holds when the tabs are opened: one timeline, active.
StoredAtStart ==
    [timelines |-> <<createTimeline("My Timeline", 1)>>, activeTimelineId |-> 1]

\* init() of both tabs: JSON.parse of the stored data, the stored active id.
InitTabs ==
    /\ today = MkDate(2026, 11, 1) /\ west = FALSE /\ legacy = NullDate
    /\ IdleParser /\ InitAppVars /\ InitViewVars
    /\ stored = StoredAtStart
    /\ timelines = StoredAtStart.timelines
    /\ activeTimelineId = StoredAtStart.activeTimelineId
    /\ otherTab = [tls |-> StoredAtStart.timelines, active |-> StoredAtStart.activeTimelineId]
    /\ nextId = 2
    /\ fetchPending = FALSE

\* A DataManager call in the second tab: its data changes, save() writes it.
OtherCall(r) ==
    /\ WithinBounds(r)
    /\ otherTab' = r.D
    /\ nextId' = nextId + r.n
    /\ stored' = IF r.saved THEN [timelines |-> r.D.tls, activeTimelineId |-> r.D.active]
                 ELSE stored
    /\ UNCHANGED <<envVars, parserVars, timelines, activeTimelineId, fetchPending, appVars,
                   viewVars, entityColors>>

OtherAddEvent == \E d \in ApiDataSet : OtherCall(addEvent(otherTab, d))

OtherAddTimeline == OtherCall(addTimeline(otherTab, "Plan"))

\* The storage event the first tab receives when the second has saved: refreshUI(), which
\* shows the tab's own data again.
StorageEvent ==
    /\ stored # [timelines |-> timelines, activeTimelineId |-> activeTimelineId]
    /\ UNCHANGED <<envVars, otherTab, parserVars, storeVars, currentEditingEventId, viewVars>>
    /\ RefreshUI

NextTabs == AddEvent \/ AddTimeline \/ OtherAddEvent \/ OtherAddTimeline \/ StorageEvent

SpecTabs == InitTabs /\ [][NextTabs]_vars

(***************************************************************************)
(* DataManager: properties                                                 *)
(***************************************************************************)
\* The events of all timelines of the store.
StoredEvents ==
    UNION {{timelines[i].events[j] : j \in 1..Len(timelines[i].events)} :
              i \in 1..Len(timelines)}

\* The cached date fields of an event are what parsing its deadline text yields.
CacheMatchesText(e) ==
    /\ e.startDate = parse(e.deadlineText).startDate
    /\ e.endDate = parse(e.deadlineText).endDate
    /\ e.isOngoing = parse(e.deadlineText).isOngoing
    /\ e.computedDate = parse(e.deadlineText).startDate

\* C6: after any sequence of addEvent, updateEvent, importTimeline, importAll and
\* duplicateTimeline calls, the cached startDate, endDate, isOngoing and computedDate of
\* every stored event are the result of parsing that event's deadlineText.
C6_CacheFromText == \A e \in StoredEvents : CacheMatchesText(e)

\* C7: after any sequence of addEvent, updateEvent and importTimeline calls no stored
\* event has a null startDate.
C7_StartDateNotNull == \A e \in StoredEvents : e.startDate # NullDate

\* C21: every stored event has a non-empty list of primary entities: after any sequence
\* of form saves, addEvent, updateEvent and importTimeline calls, entity text of only
\* commas or whitespace included, event.entities is an array with at least one key.
C21_EntitiesNonEmpty == \A e \in StoredEvents : e.entities.k = "arr" /\ e.entities.v # <<>>

\* C22: after any sequence of addEvent and updateEvent calls as the event form issues
\* them, the secondaryEntities of every stored event is an array (a list of keys, never a
\* raw string).
C22_SecondaryIsArray == \A e \in StoredEvents : e.secondaryEntities.k = "arr"

\* The identifiers of the events of timeline i, in order.
EventIdsOf(i) == [j \in 1..Len(timelines[i].events) |-> timelines[i].events[j].id]

\* C23: event identifiers are unique and each event belongs to exactly one timeline:
\* after any sequence of addEvent, duplicateTimeline, exportTimeline followed by
\* importTimeline, and deleteTimeline, no event id occurs twice within a timeline or in
\* two different timelines.
C23_EventIdsUnique ==
    \A i1, i2 \in 1..Len(timelines) :
        \A j1 \in 1..Len(timelines[i1].events), j2 \in 1..Len(timelines[i2].events) :
            EventIdsOf(i1)[j1] = EventIdsOf(i2)[j2] => (i1 = i2 /\ j1 = j2)

\* C29: in every reachable state of the store, the empty store whose sample-timeline fetch
\* has not settled included, there is at least one timeline and activeTimelineId is the id
\* of an existing timeline.
C29_ActiveTimelineExists == timelines # <<>> /\ activeTimelineId \in TimelineIds

\* C29, once the fetch of the sample timeline has settled.
C29_AfterFetch == ~fetchPending => C29_ActiveTimelineExists

\* The identifiers of the timelines and events a store content holds.
IdsIn(content) ==
    {content.timelines[i].id : i \in 1..Len(content.timelines)}
    \cup UNION {{content.timelines[i].events[j].id :
                    j \in 1..Len(content.timelines[i].events)} :
                   i \in 1..Len(content.timelines)}

\* C30: with two tabs on one localStorage no saved change is lost: while the tabs only add
\* timelines and events, what the persisted store holds is still there after any later
\* save of either tab.
C30_NoLostUpdate == [][IdsIn(stored) \subseteq IdsIn(stored')]_vars

\* The file lacks a name, its events are no array, or one of its events lacks a title, a
\* goal, an entity or a deadline text.
Malformed(f) ==
    \/ f.name = ""
    \/ ~f.eventsIsArray
    \/ \E k \in 1..Len(f.events) :
          \/ f.events[k].title = ""
          \/ f.events[k].goal = ""
          \/ f.events[k].deadlineText = <<>>
          \/ /\ ~Truthy(f.events[k].entity)
             /\ (~Truthy(f.events[k].entities) \/ f.events[k].entities.v = <<>>)

\* The call threw and left the data and the persisted store alone; no identifier was
\* generated, so neither createTimeline nor createEvent, which calls parse, was reached.
ThrewUnchanged(r, D) == r.threw /\ r.D = D /\ ~r.saved /\ r.n = 0

\* C20: importTimeline rejects malformed data without side effects: the call throws, the
\* timelines, the active timeline id and the persisted store are unchanged and parse is
\* not invoked on any of the file's events.
C20_ImportRejects ==
    \A f \in ImportSet :
        (f.wellFormed /\ Malformed(f)) => ThrewUnchanged(importTimeline(Data, f), Data)

C20_Witness ==
    /\ timelines # <<>>
    /\ stored.timelines = timelines
    /\ \E f \in ImportSet :
           /\ f.wellFormed /\ Len(f.events) = 2 /\ Malformed(f)
           /\ ThrewUnchanged(importTimeline(Data, f), Data)

(***************************************************************************)
(* Renderer: the viewport                                                  *)
(*                                                                         *)
(* Pixels and the zoom factor are fixed-point numbers: a pixel value p is  *)
(* the integer 10 p, a zoom z the integer 100 z.  The svg element exists   *)
(* once init() has run, which is before any handler.                       *)
(***************************************************************************)
\* n pixels.
Px(n) == n * 10

\* a * n / d, rounded to the nearest unit, for d > 0.
MulDiv(a, n, d) ==
    (a \div d) * n
    + (((a % d) * (n \div 1000)) \div d) * 1000
    + RDiv((((a % d) * (n \div 1000)) % d) * 1000 + (a % d) * (n % 1000), d)

MARGIN == [top |-> 60, right |-> 100, bottom |-> 60, left |-> 100]

SPLIT_VIEW_LABEL_WIDTH == 180

BASE_ROW_HEIGHT == 80

\* The Renderer's state object.
State ==
    [events |-> events, viewMode |-> viewMode, zoom |-> zoom, panX |-> panX, panY |-> panY,
     filters |-> filters, isDragging |-> isDragging]

IsSplit(st) == st.viewMode = "entity" \/ st.viewMode = "goal"

\* getRowHeight(): BASE_ROW_HEIGHT * (2.5 / zoom) below the threshold 2.5.
getRowHeight(st) ==
    IF st.zoom >= 250 THEN Px(BASE_ROW_HEIGHT) ELSE MulDiv(Px(BASE_ROW_HEIGHT), 250, st.zoom)

\* Math.max(lo, Math.min(hi, p))
ClampMutant(lo, hi, p) ==
    IF p > hi THEN (p + hi) \div 2 ELSE IF p < lo THEN (p + lo) \div 2 ELSE p

Clamp(lo, hi, p) == Max2(lo, Min2(hi, p))

\* constrainPan: the left margin, which depends on the view mode.
LeftMargin(st) == IF IsSplit(st) THEN Px(SPLIT_VIEW_LABEL_WIDTH) ELSE Px(MARGIN.left)

\* constrainPan: (endDate - startDate) * scale, which is timelineWidth * zoom.
TotalTimelineWidth(st) == MulDiv(width - LeftMargin(st) - Px(MARGIN.right), st.zoom, 100)

MaxPanX(st) == width - LeftMargin(st)

MinPanX(st) == -(TotalTimelineWidth(st) - LeftMargin(st))

\* constrainPan: the number of rows of a split view.
RowCount(st) ==
    IF st.viewMode = "entity"
    THEN Cardinality(UNION {Range(PrimaryEntities(st.events[k]))
                                \cup Range(SecondaryEntities(st.events[k])) :
                                k \in 1..Len(st.events)})
    ELSE Cardinality({st.events[k].goal : k \in 1..Len(st.events)} \ {""})

MinPanY(st) == -(RowCount(st) * getRowHeight(st) - height + Px(MARGIN.top) + Px(MARGIN.bottom))

\* constrainPan().  Every event yields a date (new Date(null) is the epoch), so the list
\* of dates is empty only when there is no event.
constrainPan(st) ==
    IF st.events = <<>> THEN st
    ELSE [st EXCEPT
            !.panX = Clamp(MinPanX(st), MaxPanX(st), st.panX),
            !.panY = IF IsSplit(st) /\ RowCount(st) > 0
                     THEN Clamp(MinPanY(st), 0, st.panY)
                     ELSE st.panY]

\* setZoom(newZoom)
setZoom(st, newZoom) ==
    LET viewportCenterX == width \div 2
        viewportCenterY == height \div 2
        zoomed == [st EXCEPT !.zoom = Max2(10, Min2(1000, newZoom))]
        newTimelinePosAtCenter ==
            MulDiv(viewportCenterX - st.panX - Px(MARGIN.left), zoomed.zoom, st.zoom)
        oldRowHeight == getRowHeight(st)
        newRowHeight == getRowHeight(zoomed)
        newPanY ==
            IF IsSplit(st) /\ oldRowHeight # newRowHeight
            THEN viewportCenterY - Px(MARGIN.top)
                 - MulDiv(viewportCenterY - st.panY - Px(MARGIN.top), newRowHeight,
                          oldRowHeight)
            ELSE st.panY
    IN constrainPan([zoomed EXCEPT
                        !.panX = viewportCenterX - newTimelinePosAtCenter - Px(MARGIN.left),
                        !.panY = newPanY])

\* The reset button and the key 0: no call of constrainPan.
resetZoom(st) == [st EXCEPT !.zoom = 100, !.panX = 0, !.panY = 0]

\* handleMouseMove while dragging; dx and dy are the mouse's displacement.
handleMouseMove(st, dx, dy) ==
    constrainPan([st EXCEPT !.panX = @ + dx, !.panY = @ + dy])

\* handleWheel
handleWheel(st, deltaX, deltaY) ==
    constrainPan([st EXCEPT !.panX = @ - deltaX,
                            !.panY = IF IsSplit(st) THEN @ - deltaY ELSE @])

\* setState(newState): the fields of newState that are defined are stored.
setState(st, newState) ==
    [st EXCEPT !.zoom = IF "zoom" \in newState.keys THEN newState.zoom ELSE @,
               !.panX = IF "panX" \in newState.keys THEN newState.panX ELSE @,
               !.panY = IF "panY" \in newState.keys THEN newState.panY ELSE @]

\* restoreState(savedState)
restoreState(st, savedState) ==
    [st EXCEPT !.zoom = savedState.zoom, !.panX = savedState.panX, !.panY = savedState.panY]

\* getFilteredEvents(); the search box is left empty.
getFilteredEvents(st) ==
    SelectSeq(st.events,
              LAMBDA e :
                  /\ st.filters.entity # "" =>
                        st.filters.entity \in Range(PrimaryEntities(e))
                                                  \cup Range(SecondaryEntities(e))
                  /\ st.filters.goal # "" => e.goal = st.filters.goal)

\* render(): the x coordinate of the axis' left end.
AxisStartX(st) ==
    (IF IsSplit(st) THEN Px(SPLIT_VIEW_LABEL_WIDTH) ELSE Px(MARGIN.left)) + st.panX

\* render(): the x coordinate of the axis' right end, axisStartX + (endDate - startDate) *
\* scale.
AxisEndX(st) ==
    AxisStartX(st)
    + MulDiv(width - (IF IsSplit(st) THEN Px(SPLIT_VIEW_LABEL_WIDTH) ELSE Px(MARGIN.left))
                   - Px(MARGIN.right),
             st.zoom, 100)

(***************************************************************************)
(* Renderer: the layout that render() draws                                *)
(*                                                                         *)
(* render() only reads the Renderer's state, so the layout is a function   *)
(* of the state.  Time is counted in tenths of a day, which makes the      *)
(* padding of a tenth of the range an integer; today is the start of the   *)
(* local day.                                                              *)
(***************************************************************************)
Epoch == MkDate(1970, 1, 1)

\* new Date(value), in days: null is the epoch.
DateValue(d) == IF d = NullDate THEN DayNumber(Epoch) ELSE DayNumber(d)

\* new Date(event.startDate || event.computedDate)
EventDate(e) == DateValue(IF e.startDate # NullDate THEN e.startDate ELSE e.computedDate)

\* The dates render collects: each event's start, its end when it has one, and today.
RenderDates(evs) ==
    {EventDate(evs[k]) : k \in 1..Len(evs)}
    \cup {DateValue(evs[k].endDate) : k \in {j \in 1..Len(evs) : evs[j].endDate # NullDate}}
    \cup {DayNumber(today)}

\* maxDate - minDate, in days.
DateSpan(dates) == SetMax(dates) - SetMin(dates)

\* (maxDate - minDate) * 0.1 || 30 days, in tenths of a day.
PaddingOf(span) == IF span = 0 THEN 300 ELSE span

Padding(evs) == PaddingOf(DateSpan(RenderDates(evs)))

\* startDate of the axis, in tenths of a day.
RangeStartOf(dates) == 10 * SetMin(dates) - PaddingOf(DateSpan(dates))

RangeStart(evs) == RangeStartOf(RenderDates(evs))

\* endDate - startDate of the axis, in tenths of a day.
RangeSpanOf(span) == 10 * span + 2 * PaddingOf(span)

RangeSpan(evs) == RangeSpanOf(DateSpan(RenderDates(evs)))

\* axisStartX + (date - startDate) * scale, for a date given in days.
Scaled(axisStartX, axisEndX, startDate, span, day) ==
    axisStartX + MulDiv(10 * day - startDate, axisEndX - axisStartX, span)

XOfDate(st, evs, day) ==
    Scaled(AxisStartX(st), AxisEndX(st), RangeStart(evs), RangeSpan(evs), day)

\* One element { event, x, x2, date } of eventsWithX.
ItemOf(event, x, xEnd) ==
    [x |-> x,
     date |-> EventDate(event),
     event |-> event,
     x2 |-> IF event.endDate # NullDate /\ ~event.isOngoing THEN xEnd ELSE x]

ItemsOn(axisStartX, axisEndX, startDate, span, shown) ==
    [k \in 1..Len(shown) |->
        ItemOf(shown[k],
               Scaled(axisStartX, axisEndX, startDate, span, EventDate(shown[k])),
               Scaled(axisStartX, axisEndX, startDate, span, DateValue(shown[k].endDate)))]

\* The elements { event, x, x2, date } of eventsWithX, for the events of one axis.
EventsWithX(st, evs, shown) ==
    ItemsOn(AxisStartX(st), AxisEndX(st), RangeStart(evs), RangeSpan(evs), shown)

\* A sorted list with one more element, put behind the elements that are not later.
InsertAt(rest, last, k) == SubSeq(rest, 1, k) \o <<last>> \o SubSeq(rest, k + 1, Len(rest))

InsertByDate(rest, last) ==
    InsertAt(rest, last, Cardinality({j \in 1..Len(rest) : rest[j].date <= last.date}))

\* eventsWithX.sort((a, b) => a.date - b.date): a stable sort.
RECURSIVE SortByDate(_)
SortByDate(q) ==
    IF Len(q) <= 1 THEN q
    ELSE InsertByDate(SortByDate(SubSeq(q, 1, Len(q) - 1)), q[Len(q)])

\* The label of the k-th tick of the axis.
DateLabel(tickX, LABEL_WIDTH) ==
    [x |-> tickX - Px(LABEL_WIDTH) \div 2, x2 |-> tickX + Px(LABEL_WIDTH) \div 2]

LabelsEvery(axisStartX, axisEndX, span, interval) ==
    {DateLabel(axisStartX + MulDiv(10 * interval * k, axisEndX - axisStartX, span), 60) :
        k \in 0..(span \div (10 * interval))}

LabelsOn(axisStartX, axisEndX, span) ==
    LabelsEvery(axisStartX, axisEndX, span,
                IF span < 900 THEN 7 ELSE IF span < 3650 THEN 30 ELSE 90)

\* calculateDateLabelPositions
calculateDateLabelPositions(st, evs) ==
    LabelsOn(AxisStartX(st), AxisEndX(st), RangeSpan(evs))

\* assignLevelsToEvents: the test of one level for one event.
LevelAccepts(level, item, MIN_SPACING, dateLabelPositions) ==
    /\ level[Len(level)].x2 + MIN_SPACING < item.x
    /\ ~\E dateLabel \in dateLabelPositions :
           ~(item.x2 + Px(30) < dateLabel.x \/ item.x - Px(30) > dateLabel.x2)

\* The event joins the highest of the levels that accept it.
PutInLevelMutant(levels, item, ok) ==
    IF ok = {} THEN Append(levels, <<item>>)
    ELSE [levels EXCEPT ![SetMax(ok)] = Append(@, item)]

\* The event joins the lowest of the levels ok, or a new level when there is none.
PutInLevel(levels, item, ok) ==
    IF ok = {} THEN Append(levels, <<item>>)
    ELSE [levels EXCEPT ![SetMin(ok)] = Append(@, item)]

\* assignLevelsToEvents: the levels once the first n events are placed.
RECURSIVE assignLevelsToEvents(_, _, _, _)
assignLevelsToEvents(eventsWithX, MIN_SPACING, dateLabelPositions, n) ==
    IF n = 0 THEN <<>>
    ELSE LET levels == assignLevelsToEvents(eventsWithX, MIN_SPACING, dateLabelPositions,
                                            n - 1)
         IN PutInLevel(levels, eventsWithX[n],
                       {i \in 1..Len(levels) :
                           LevelAccepts(levels[i], eventsWithX[n], MIN_SPACING,
                                        dateLabelPositions)})

\* A level test that pads the earlier event on its left only.
fitsInLevelMutant(level, x, x2, MIN_SPACING) ==
    \A i \in 1..Len(level) : x2 < level[i].x - MIN_SPACING \/ x > level[i].x2

\* fitsInLevelSingle of the unified view and fitsInLevel of the split views.
fitsInLevel(level, x, x2, MIN_SPACING) ==
    \A i \in 1..Len(level) :
        x2 < level[i].x - MIN_SPACING \/ x > level[i].x2 + MIN_SPACING

\* The first-fit loop over the events: the levels once the first n events are placed.
RECURSIVE FirstFitLevels(_, _, _)
FirstFitLevels(eventsWithX, MIN_SPACING, n) ==
    IF n = 0 THEN <<>>
    ELSE LET levels == FirstFitLevels(eventsWithX, MIN_SPACING, n - 1)
         IN PutInLevel(levels, eventsWithX[n],
                       {i \in 1..Len(levels) :
                           fitsInLevel(levels[i], eventsWithX[n].x, eventsWithX[n].x2,
                                       MIN_SPACING)})

\* The placements of the levels of one side of one axis; rank is the place of the event
\* in its level, level counts from 0, y is the label's vertical position or offset.
Positions(levels, row, side, Y(_)) ==
    UNION {{[x |-> levels[i][j].x, y |-> Y(i - 1), event |-> levels[i][j].event,
             x2 |-> levels[i][j].x2, level |-> i - 1, row |-> row, side |-> side,
             rank |-> j] : j \in 1..Len(levels[i])} : i \in 1..Len(levels)}

\* An event counts as primary for every entity it names.
IsPrimaryOfMutant(key, item) ==
    key \in Range(PrimaryEntities(item.event)) \cup Range(SecondaryEntities(item.event))

IsPrimaryOf(key, item) == key \in Range(PrimaryEntities(item.event))

\* An offset that grows by one row with every level.
AlternatingYMutant(axisY, levelIndex, LABEL_HEIGHT) ==
    axisY + (IF levelIndex % 2 = 0 THEN -1 ELSE 1) * (levelIndex + 2) * LABEL_HEIGHT

\* y of a level of the unified view: direction * offset rows from the axis, offset being
\* Math.floor(levelIndex / 2) + 2.
AlternatingY(axisY, levelIndex, LABEL_HEIGHT) ==
    axisY + (IF levelIndex % 2 = 0 THEN -1 ELSE 1) * ((levelIndex \div 2) + 2) * LABEL_HEIGHT

\* calculateEventPositions with an entity filter: the events of one side.
SidePositions(items, MIN_SPACING, dateLabelPositions, side, Y(_)) ==
    Positions(assignLevelsToEvents(items, MIN_SPACING, dateLabelPositions, Len(items)),
              "", side, Y)

\* The first-fit levels of the events of one axis or of one side of a row.
FirstFitPositions(items, MIN_SPACING, row, side, Y(_)) ==
    Positions(FirstFitLevels(items, MIN_SPACING, Len(items)), row, side, Y)

\* calculateEventPositions, given eventsWithX sorted and the date labels.
PositionsOf(filteringByEntity, axisY, eventsWithX, labels, MIN_SPACING, LABEL_HEIGHT) ==
    IF filteringByEntity # ""
    THEN SidePositions(SelectSeq(eventsWithX, LAMBDA it : IsPrimaryOf(filteringByEntity, it)),
                       MIN_SPACING, labels, "primary",
                       LAMBDA l : axisY - (l + 1) * LABEL_HEIGHT)
         \cup SidePositions(SelectSeq(eventsWithX,
                                      LAMBDA it : ~IsPrimaryOf(filteringByEntity, it)),
                            MIN_SPACING, labels, "secondary",
                            LAMBDA l : axisY + (l + 1) * LABEL_HEIGHT)
    ELSE FirstFitPositions(eventsWithX, MIN_SPACING, "", "alternating",
                           LAMBDA l : AlternatingY(axisY, l, LABEL_HEIGHT))

\* calculateEventPositions of the unified view: LABEL_HEIGHT 30, MIN_SPACING 200.
calculateEventPositions(st, evs) ==
    PositionsOf(st.filters.entity, height \div 2 + st.panY,
                SortByDate(EventsWithX(st, evs, evs)), calculateDateLabelPositions(st, evs),
                Px(200), Px(30))

\* renderSplitTimeline: the keys of the groups.
GroupKeys(st, evs) ==
    IF st.viewMode = "entity"
    THEN UNION {Range(PrimaryEntities(evs[k])) \cup Range(SecondaryEntities(evs[k])) :
                   k \in 1..Len(evs)}
    ELSE {evs[k].goal : k \in 1..Len(evs)}

\* renderSplitTimeline: the events of a group (an entity is named once by an event).
GroupEvents(st, evs, key) ==
    IF st.viewMode = "entity"
    THEN SelectSeq(evs, LAMBDA e : key \in Range(PrimaryEntities(e))
                                               \cup Range(SecondaryEntities(e)))
    ELSE SelectSeq(evs, LAMBDA e : e.goal = key)

\* renderSplitTimeline: the placements of one row, given its eventsWithX sorted.
RowPositionsOf(byEntity, key, eventsWithX, MIN_SPACING, LABEL_HEIGHT) ==
    FirstFitPositions(IF byEntity THEN SelectSeq(eventsWithX, LAMBDA it : IsPrimaryOf(key, it))
                      ELSE eventsWithX,
                      MIN_SPACING, key, "primary", LAMBDA l : -(l * LABEL_HEIGHT + Px(15)))
    \cup FirstFitPositions(IF byEntity
                           THEN SelectSeq(eventsWithX, LAMBDA it : ~IsPrimaryOf(key, it))
                           ELSE <<>>,
                           MIN_SPACING, key, "secondary",
                           LAMBDA l : l * LABEL_HEIGHT + Px(20))

\* renderSplitTimeline: the placements of one row; MIN_SPACING 80, LABEL_HEIGHT 30.
RowPositions(st, evs, key) ==
    RowPositionsOf(st.viewMode = "entity", key,
                   SortByDate(EventsWithX(st, evs, GroupEvents(st, evs, key))),
                   Px(80), Px(30))

\* The placements of the events render() draws.
LayoutOf(st, filteredEvents) ==
    IF filteredEvents = <<>> THEN {}
    ELSE IF st.viewMode = "single" THEN calculateEventPositions(st, filteredEvents)
    ELSE UNION {RowPositions(st, filteredEvents, key) : key \in GroupKeys(st, filteredEvents)}

\* render(): the placements drawn for the state.
Layout(st) == LayoutOf(st, getFilteredEvents(st))

\* The minimum spacing of the view mode.
Spacing(st) == IF IsSplit(st) THEN Px(80) ELSE Px(200)

\* render(): the SVG's children are removed, then the placements of the state are drawn.
renderMutant(previous, st) == previous \cup Layout(st)

render(previous, st) == Layout(st)

(***************************************************************************)
(* Renderer: the handlers that change the viewport                         *)
(***************************************************************************)
\* The number of input events a behaviour is followed for.
MaxSteps == 4

\* The event lists the App hands to the Renderer.
ViewEvent(id, goal, entity, secondary, deadlineText) ==
    createEvent(FormData("t", goal, entity, secondary, deadlineText), id, today, west, legacy)

EvA == ViewEvent(1, "g", <<"A">>, <<>>, TextQ1)

EvB == ViewEvent(2, "h", <<"B">>, <<"A">>, TextRange)

ViewEventLists == {<<>>, <<EvA>>, <<EvA, EvB>>}

\* Canvas sizes: a window of 1000 by 600 pixels, and one narrower than the margins.
CanvasSizes == {<<Px(1000), Px(600)>>, <<Px(150), Px(200)>>}

SliderZooms == {50, 200, 500}

MouseMoves == {<<Px(450), 0>>, <<-Px(450), -Px(200)>>}

WheelDeltas == {<<Px(300), 0>>, <<0, Px(150)>>}

NewStates ==
    {[keys |-> {"zoom"}, zoom |-> 5000, panX |-> 0, panY |-> 0],
     [keys |-> {"panX"}, zoom |-> 0, panX |-> Px(5000), panY |-> 0],
     [keys |-> {"panX", "panY"}, zoom |-> 0, panX |-> -Px(300), panY |-> -Px(100)]}

SavedStates == {[zoom |-> 100, panX |-> Px(200), panY |-> 0],
                [zoom |-> 2000, panX |-> 0, panY |-> Px(50)]}

\* A handler has run and left the Renderer's state as new.
StateStep(new) ==
    /\ steps < MaxSteps
    /\ steps' = steps + 1
    /\ viewMode' = new.viewMode
    /\ zoom' = new.zoom
    /\ panX' = new.panX
    /\ panY' = new.panY
    /\ events' = new.events
    /\ filters' = new.filters
    /\ isDragging' = new.isDragging
    /\ UNCHANGED <<envVars, otherTab, parserVars, storeVars, currentEditingEventId, width, height>>

\* A handler that ends with render().
Drawing(new) == StateStep(new) /\ drawn' = render(drawn, new)

\* A handler that draws and leaves the colours alone.
ViewStep(new) == Drawing(new) /\ entityColors' = entityColors

\* A handler that does not draw.
NoRender(new) == StateStep(new) /\ drawn' = drawn /\ entityColors' = entityColors

ZoomSlider == \E z \in SliderZooms : ViewStep(setZoom(State, z))

KeyZoomIn == ViewStep(setZoom(State, RDiv(zoom * 12, 10)))

KeyZoomOut == ViewStep(setZoom(State, RDiv(zoom * 10, 12)))

KeyZoomReset == ViewStep(resetZoom(State))

ResetZoomButton == ViewStep(resetZoom(State))

MouseDown == ~isDragging /\ NoRender([State EXCEPT !.isDragging = TRUE])

MouseMove == isDragging /\ \E d \in MouseMoves : ViewStep(handleMouseMove(State, d[1], d[2]))

MouseUp == isDragging /\ NoRender([State EXCEPT !.isDragging = FALSE])

Wheel == \E d \in WheelDeltas : ViewStep(handleWheel(State, d[1], d[2]))

SetViewMode ==
    \E mode \in {"single", "entity", "goal"} : ViewStep([State EXCEPT !.viewMode = mode])

\* setEvents(events): the events are stored, their entities coloured, the view drawn.
SetEvents ==
    \E evs \in ViewEventLists :
        /\ Drawing([State EXCEPT !.events = evs])
        /\ entityColors' = assignColors(entityColors, evs)

SetFilters ==
    \/ \E entity \in {"", "A"} : ViewStep([State EXCEPT !.filters.entity = entity])
    \/ \E goal \in {"", "h"} : ViewStep([State EXCEPT !.filters.goal = goal])

SetState == \E newState \in NewStates : ViewStep(setState(State, newState))

RestoreState == \E savedState \in SavedStates : ViewStep(restoreState(State, savedState))

InitView ==
    /\ today = MkDate(2026, 11, 1) /\ west = FALSE /\ legacy = NullDate
    /\ IdleParser /\ InitStoreVars
    /\ currentEditingEventId = 0
    /\ events \in ViewEventLists
    /\ viewMode = "single"
    /\ zoom = 100
    /\ panX = 0
    /\ panY = 0
    /\ filters = [entity |-> "", goal |-> "", search |-> ""]
    /\ isDragging = FALSE
    /\ \E size \in CanvasSizes : width = size[1] /\ height = size[2]
    /\ steps = 0
    /\ drawn = render({}, State)
    /\ entityColors = assignColors({}, events)

NextView ==
    \/ ZoomSlider \/ KeyZoomIn \/ KeyZoomOut \/ KeyZoomReset \/ ResetZoomButton
    \/ MouseDown \/ MouseMove \/ MouseUp \/ Wheel
    \/ SetViewMode \/ SetEvents \/ SetFilters \/ SetState \/ RestoreState

SpecView == InitView /\ [][NextView]_vars

(***************************************************************************)
(* Renderer: properties of the viewport                                    *)
(***************************************************************************)
Abs(n) == IF n < 0 THEN -n ELSE n

\* A step of setZoom, from the slider or from the keyboard.
SetZoomStep == ZoomSlider \/ KeyZoomIn \/ KeyZoomOut

\* Where the instant that render() draws at the viewport's centre before the step is
\* drawn after it: axisStartX + (D - startDate) * scale with the new pan and zoom.
CentreAfterZoom ==
    AxisStartX(State)' + MulDiv(width \div 2 - AxisStartX(State), zoom', zoom)

\* C2: in every view mode, the instant drawn at the horizontal centre of the viewport
\* before setZoom is drawn within one pixel of that centre after setZoom has finished
\* (stated for a canvas wider than its margins, a pan that constrainPan accepts and a
\* centre that lies on the axis).
C2_ZoomKeepsCentre ==
    [][(/\ SetZoomStep
        /\ getFilteredEvents(State) # <<>>
        /\ width >= Px(400)
        /\ constrainPan(State) = State
        /\ AxisStartX(State) <= width \div 2
        /\ width \div 2 <= AxisEndX(State))
          => Abs(CentreAfterZoom - width \div 2) <= Px(1)]_vars

\* C3: once a zoom or pan mutation has run on a timeline that displays an event, on a
\* canvas wider than its margins, the axis is not beyond the right edge of the screen and
\* does not end left of the left margin.
C3_AxisVisible ==
    (steps > 0 /\ getFilteredEvents(State) # <<>> /\ width >= Px(400))
        => (AxisStartX(State) <= width /\ AxisEndX(State) >= LeftMargin(State))

\* C4: constrainPan is idempotent: applied to what it returned, it changes nothing,
\* whatever the viewport, the events, the view mode and the canvas are.
C4_ConstrainPanIdempotent == constrainPan(constrainPan(State)) = constrainPan(State)

\* A clamped viewport on a canvas whose lower pan bound exceeds the upper one.
C4_Witness ==
    /\ steps > 0
    /\ events # <<>>
    /\ IsSplit(State)
    /\ MinPanX(State) > MaxPanX(State)
    /\ panX = MinPanX(State)
    /\ panY = MinPanY(State)
    /\ constrainPan(State) = State

\* C5: in every reachable state of the viewport zoom lies within [0.1, 10].
C5_ZoomInRange == 10 <= zoom /\ zoom <= 1000

(***************************************************************************)
(* Renderer: the layouts of event lists                                    *)
(***************************************************************************)
\* The longest event list laid out.
MaxLayoutEvents == 3

EvC == ViewEvent(3, "g", <<"A">>, <<"B">>, TextReversed)

EvD == ViewEvent(4, "g", <<"A">>, <<>>, <<"Q", "2", " ", "2", "0", "2", "6">>)

EvE == ViewEvent(5, "h", <<"A">>, <<>>, TextBad)

EventPool == {EvA, EvB, EvC, EvD, EvE}

\* Lists of distinct events of the pool, in the order they were added or in the opposite
\* order.
LayoutEventLists ==
    {q \in UNION {[1..n -> EventPool] : n \in 1..MaxLayoutEvents} :
        \/ \A i, j \in 1..Len(q) : i < j => q[i].id < q[j].id
        \/ \A i, j \in 1..Len(q) : i < j => q[i].id > q[j].id}

InitLayout ==
    /\ today = MkDate(2026, 11, 1) /\ west = FALSE /\ legacy = NullDate
    /\ IdleParser /\ InitStoreVars
    /\ currentEditingEventId = 0
    /\ events \in LayoutEventLists
    /\ viewMode = "single"
    /\ zoom = 100
    /\ panX = 0
    /\ panY = 0
    /\ filters = [entity |-> "", goal |-> "", search |-> ""]
    /\ isDragging = FALSE
    /\ \E size \in CanvasSizes : width = size[1] /\ height = size[2]
    /\ steps = 0
    /\ drawn = render({}, State)
    /\ entityColors = assignColors({}, events)

NextLayout == ZoomSlider \/ SetViewMode \/ SetFilters

SpecLayout == InitLayout /\ [][NextLayout]_vars

(***************************************************************************)
(* Renderer: properties of the layout                                      *)
(***************************************************************************)
SameLevel(p, q) == p.row = q.row /\ p.side = q.side /\ p.level = q.level

Intersect(lo1, hi1, lo2, hi2) == Max2(lo1, lo2) <= Min2(hi1, hi2)

\* C1: two distinct events in the same level on the same side have disjoint padded
\* intervals [x - spacing, x2 + spacing].
C1_PaddedIntervalsDisjoint ==
    \A p, q \in Layout(State) :
        (SameLevel(p, q) /\ p.rank # q.rank) =>
            ~Intersect(p.x - Spacing(State), p.x2 + Spacing(State),
                       q.x - Spacing(State), q.x2 + Spacing(State))

\* C1 (amended): on a canvas wider than its margins, of two events in the same level on the
\* same side the one placed later keeps its own interval [x, x2] clear of the padded
\* interval of the one placed earlier: it ends left of x - spacing or starts right of
\* x2 + spacing.
C1_LaterClearOfPadded ==
    AxisEndX(State) > AxisStartX(State) =>
        \A p, q \in Layout(State) :
            (SameLevel(p, q) /\ p.rank < q.rank) =>
                (q.x2 < p.x - Spacing(State) \/ q.x > p.x2 + Spacing(State))

C1_Witness ==
    /\ steps > 0
    /\ AxisEndX(State) > AxisStartX(State)
    /\ \E p, q \in Layout(State) : SameLevel(p, q) /\ p.rank < q.rank

Undated(e) == e.startDate = NullDate /\ e.computedDate = NullDate

\* C17: an event whose startDate and computedDate are null receives no placement in any
\* view mode and does not influence the date range of the axis; every other event is placed.
C17_UndatedExcluded ==
    LET shown == getFilteredEvents(State)
        dated == SelectSeq(shown, LAMBDA e : ~Undated(e))
    IN /\ \A p \in drawn : ~Undated(p.event)
       /\ \A k \in 1..Len(dated) : \E p \in drawn : p.event = dated[k]
       /\ dated # <<>> =>
              RangeStart(shown) = RangeStart(dated) /\ RangeSpan(shown) = RangeSpan(dated)

\* renderSingleTimeline: the y of the baseline, axisY = centerY + state.panY.
AxisY(st) == height \div 2 + st.panY

\* C19: in the unified view no pan gesture applies a vertical pan: a mouse drag or a wheel
\* event leaves the baseline where it was, at the vertical centre of the canvas.
C19_NoVerticalPan ==
    [][(viewMode = "single" /\ (MouseMove \/ Wheel)) => AxisY(State)' = AxisY(State)]_vars

(***************************************************************************)
(* Renderer: the layouts of events that share an instant                   *)
(***************************************************************************)
EvP == ViewEvent(6, "g", <<"A">>, <<>>, <<"Q", "4", " ", "2", "0", "2", "5">>)

EvF == ViewEvent(7, "h", <<"B">>, <<>>, TextQ1)

EvG == ViewEvent(8, "g", <<"A">>, <<"B">>, <<"by", " ", "2", "0", "2", "6">>)

\* One event of the quarter before and three of 2026-01-01.
InstantPool == {EvP, EvA, EvF, EvG}

InstantEventLists ==
    {q \in UNION {[1..n -> InstantPool] : n \in 1..MaxLayoutEvents} :
        \/ \A i, j \in 1..Len(q) : i < j => q[i].id < q[j].id
        \/ \A i, j \in 1..Len(q) : i < j => q[i].id > q[j].id}

InitInstant ==
    /\ today = MkDate(2026, 11, 1) /\ west = FALSE /\ legacy = NullDate
    /\ IdleParser /\ InitStoreVars
    /\ currentEditingEventId = 0
    /\ events \in InstantEventLists
    /\ viewMode = "single"
    /\ zoom = 100
    /\ panX = 0
    /\ panY = 0
    /\ filters = [entity |-> "", goal |-> "", search |-> ""]
    /\ isDragging = FALSE
    /\ \E size \in CanvasSizes : width = size[1] /\ height = size[2]
    /\ steps = 0
    /\ drawn = render({}, State)
    /\ entityColors = assignColors({}, events)

SpecInstant == InitInstant /\ [][NextLayout]_vars

\* The renderer under setEvents calls alone: timeline switches, additions and deletions
\* after a first list of events.
NextColors == SetEvents

SpecColors == InitLayout /\ [][NextColors]_vars

\* C24: as long as at most 25 distinct entities have been seen, no two different entities
\* are assigned the same colour, after any sequence of setEvents calls.
C24_ColoursDistinct ==
    Cardinality(Coloured(entityColors)) <= Len(COLORS) =>
        \A p, q \in entityColors : p[1] # q[1] => p[2] # q[2]

\* The event is drawn as a point: x2 = x.
IsPointEvent(e) == e.endDate = NullDate \/ e.isOngoing

\* The drawn point events that fall on the instant of p.
Instant(p) == {q \in drawn : IsPointEvent(q.event) /\ EventDate(q.event) = EventDate(p.event)}

\* How far the label of p is from the baseline, on the side of its level's parity: above
\* for an even level, below for an odd one.
RowOffset(p) ==
    IF p.level % 2 = 0 THEN (height \div 2 + panY) - p.y ELSE p.y - (height \div 2 + panY)

\* Levels alternate sides and the offset grows by one label row of 30 px per two levels.
AlternatingSides(group) ==
    \A p, q \in group :
        /\ RowOffset(p) > 0
        /\ RowOffset(q) - RowOffset(p) = ((q.level \div 2) - (p.level \div 2)) * Px(30)

\* C18: in the unified view with no entity filter, the n point events of one instant get
\* the n pairwise distinct levels 0..n-1, even levels above the baseline and odd levels
\* below it, the offset growing by one label row for every two levels.
C18_InstantLevels ==
    (viewMode = "single" /\ filters.entity = "") =>
        \A p \in drawn :
            IsPointEvent(p.event) =>
                /\ {q.level : q \in Instant(p)} = 0..(Cardinality(Instant(p)) - 1)
                /\ AlternatingSides(Instant(p))

\* No other drawn event is within the minimum spacing of 200 px of the instant of p.
ClearOfOthers(p) ==
    \A q \in drawn \ Instant(p) : p.x < q.x - Px(200) \/ p.x > q.x2 + Px(200)

\* C18 (amended): in the unified view with no entity filter, the n point events of one
\* instant get n pairwise distinct levels, even levels above the baseline and odd levels
\* below it, the offset growing by one label row for every two levels; the levels are
\* 0..n-1 when no other event is drawn within the minimum spacing of that instant.
C18_InstantLevelsDistinct ==
    (viewMode = "single" /\ filters.entity = "") =>
        \A p \in drawn :
            IsPointEvent(p.event) =>
                /\ \A q, r \in Instant(p) : q.level = r.level => q = r
                /\ AlternatingSides(Instant(p))
                /\ ClearOfOthers(p) =>
                       {q.level : q \in Instant(p)} = 0..(Cardinality(Instant(p)) - 1)

C18_Witness ==
    /\ steps > 0
    /\ viewMode = "single" /\ filters.entity = ""
    /\ \E p \in drawn :
           /\ Cardinality(Instant(p)) = 3
           /\ {q.level : q \in Instant(p)} = {0, 1, 2}
           /\ p.level = 2 /\ RowOffset(p) = Px(90)

(***************************************************************************)
(* Renderer: properties of the level assignment                            *)
(***************************************************************************)
\* The place of a displayed event in the events handed to the layout.
InputIndex(e) == CHOOSE k \in 1..Len(events) : events[k] = e

\* The event of q is processed before the event of p: it starts earlier, or at the same
\* instant and comes earlier in the input.
ProcessedBefore(q, p) ==
    \/ EventDate(q.event) < EventDate(p.event)
    \/ /\ EventDate(q.event) = EventDate(p.event)
       /\ InputIndex(q.event) < InputIndex(p.event)

\* The placements of level l of the partition of p that were made before p.
PlacedBefore(p, l) ==
    {q \in drawn : q.row = p.row /\ q.side = p.side /\ q.level = l /\ ProcessedBefore(q, p)}

\* Those placements in the order they joined the level.
LevelBefore(p, l) ==
    [j \in 1..Cardinality(PlacedBefore(p, l)) |->
        CHOOSE q \in PlacedBefore(p, l) : q.rank = j]

\* The level test of the partition of p: with an entity filter the unified view tests the
\* last event of the level and the date labels, every other layout tests all its events.
Accepts(level, p) ==
    IF viewMode = "single" /\ filters.entity # ""
    THEN LevelAccepts(level, p, Px(200),
                      calculateDateLabelPositions(State, getFilteredEvents(State)))
    ELSE fitsInLevel(level, p.x, p.x2, Spacing(State))

\* The rows an event is displayed in.
RowsOf(e) ==
    IF viewMode = "single" THEN {""}
    ELSE IF viewMode = "entity"
    THEN Range(PrimaryEntities(e)) \cup Range(SecondaryEntities(e))
    ELSE {e.goal}

\* p went to the lowest level that accepted it, behind the events placed there before, and
\* to a new level only when no level accepted it.
FirstFit(p) ==
    /\ \A l \in 0..p.level :
           {q.rank : q \in PlacedBefore(p, l)} = 1..Cardinality(PlacedBefore(p, l))
    /\ p.rank = Cardinality(PlacedBefore(p, p.level)) + 1
    /\ p.rank > 1 => Accepts(LevelBefore(p, p.level), p)
    /\ \A l \in 0..(p.level - 1) :
           PlacedBefore(p, l) # {} /\ ~Accepts(LevelBefore(p, l), p)

OverlapsDateLabel(p) ==
    \E dateLabel \in calculateDateLabelPositions(State, getFilteredEvents(State)) :
        ~(p.x2 + Px(30) < dateLabel.x \/ p.x - Px(30) > dateLabel.x2)

\* C27: in the unified view, with or without an entity filter, an event joins an existing
\* level only if its placement overlaps none of the reserved spans of the date labels.
C27_LabelsExcluded ==
    viewMode = "single" => \A p \in drawn : p.rank > 1 => ~OverlapsDateLabel(p)

\* C27, for the unified view with an entity filter only.
C27_LabelsExcludedFiltered ==
    (viewMode = "single" /\ filters.entity # "") =>
        \A p \in drawn : p.rank > 1 => ~OverlapsDateLabel(p)

\* The filter value is one of the primary entities of the placed event.
FilterIsPrimary(p) == filters.entity \in Range(PrimaryEntities(p.event))

\* C28: with an entity filter in the unified view every displayed event is placed, above
\* the baseline when its primary entities include the filter value and below it otherwise;
\* either partition starts at level 0, and an event lies (level + 1) label rows of 30 px
\* from the baseline.
C28_FilterSides ==
    (viewMode = "single" /\ filters.entity # "") =>
        /\ \A k \in 1..Len(getFilteredEvents(State)) :
               \E p \in drawn : p.event = getFilteredEvents(State)[k]
        /\ \A p \in drawn :
               /\ p.y = IF FilterIsPrimary(p) THEN AxisY(State) - (p.level + 1) * Px(30)
                        ELSE AxisY(State) + (p.level + 1) * Px(30)
               /\ \E q \in drawn : FilterIsPrimary(q) = FilterIsPrimary(p) /\ q.level = 0

\* Entity filter 'A': an event of A in the second level above the baseline, an event that
\* names A as a secondary entity in the first level below it.
C28_Witness ==
    /\ steps > 0
    /\ viewMode = "single" /\ filters.entity = "A"
    /\ \E p, q \in drawn :
           /\ FilterIsPrimary(p) /\ p.level = 1 /\ p.y = AxisY(State) - Px(60)
           /\ ~FilterIsPrimary(q) /\ q.level = 0 /\ q.y = AxisY(State) + Px(30)

=============================================================================
